---- MODULE Spec2Model ----
(***************************************************************************)
(* Verification model of the polytwisters cross-section engine:            *)
(*   - the hard realizer (hard_polytwister_section.py: create_cycloplane,  *)
(*     make_rotated_copies, safe_intersect/safe_cut/safe_union,            *)
(*     Realizer.traverse),                                                 *)
(*   - the normalizer (get_max_distance_from_origin, get_scale_and_max_w), *)
(*   - the catalog lookup (all_polytwisters.get_polytwister),              *)
(*   - the soft slicer (soft_polytwister_section.py: get_cross_section,    *)
(*     merge_hulls, get_soft_polytwister_cross_section),                   *)
(*   - independent calls of make_polytwister_cross_section on one          *)
(*     polytwister, and repeated calls of get_scale_and_max_w.             *)
(*                                                                         *)
(* Numbers.  Lengths (w) and angles (zenith) are fixed-point integers with *)
(* Unit ticks per 1.0, Unit = 1000 * 2^11, so that EPSILON = 0.001, the    *)
(* bisection tolerance 0.01, the grid step 1 and every bisection midpoint  *)
(* the model reaches are exact integers.                                   *)
(*                                                                         *)
(* Solids.  A cadquery.Workplane holding a solid is represented by the set *)
(* of angular sectors (about the symmetry axis Y, Sectors of them) that    *)
(* the solid occupies; the empty Workplane is the empty set.  Rotation     *)
(* about Y by k * 2*pi/Sectors shifts sectors by k; the kernel's Boolean   *)
(* operators are the set operators.  The kernel (CadQuery) is not part of  *)
(* the repository: whether a Boolean call on non-empty operands fails, and *)
(* with which exception class, and what a call with an empty argument      *)
(* does, is an input chosen in Init (variable kernel).                     *)
(***************************************************************************)
EXTENDS Integers, Sequences, FiniteSets, TLC

VARIABLES
    op,       \* which entry point this run exercises
    pc,       \* position of the run
    tree,     \* polytwister["tree"] handed to Realizer.realize
    w,        \* cross-section coordinate handed to Realizer(w)
    kernel,   \* behaviour of the external Boolean kernel in this run
    result,   \* what Realizer.realize returned or raised
    klog,     \* kernel Boolean calls made, in order
    elog,     \* create_cycloplane calls made, in order
    profile,  \* the polytwister handed to get_scale_and_max_w, as its D
    scale,    \* get_scale_and_max_w: scale, a fraction num / den
    max_w_lower_bound,   \* get_scale_and_max_w: lower bound of max W
    max_w_upper_bound,   \* get_scale_and_max_w: upper bound of max W
    queries,  \* w of every get_max_distance_from_origin call, in order
    grid,     \* number of +1 steps the grid search has made
    ret,      \* what get_scale_and_max_w returned or raised
    message,  \* text of the ValueError the core raised, as its pieces
    name,     \* the name handed to get_polytwister
    found,    \* what get_polytwister returned or raised
    soft_polytwister_spec,  \* the spec handed to
                            \* get_soft_polytwister_cross_section
    soft_w,         \* the w handed to it
    qhull,          \* the pieces on which the 3D hull computation fails
    cross_section,  \* what get_soft_polytwister_cross_section returned
    edges,          \* per piece, the edges get_cross_section went through
    calls,    \* the calls of make_polytwister_cross_section under way on
              \* one polytwister, each with its own Realizer instance
    returns,  \* what earlier calls of get_scale_and_max_w on the same
              \* polytwister returned
    request,  \* render_one_section_as_obj: which slicer, normalize, scale,
              \* and the radius at which the kernel tessellates
    mesh,     \* the mesh that reached write_mesh_as_obj
    divisors, \* the divisors of the divisions made on the mesh, in order
    max_distance,  \* what get_max_distance_from_origin returned for it
    out_file, \* the output file: whether it exists, and its lines
    raised,   \* the exception with which the render call ended
    frame_args,  \* get_w_coordinates_and_file_names: num_frames and max_w
    frames,   \* what it returned or raised
    animation,         \* render_animation: num_frames, max_w, and the
                       \* render_frame call at which Blender fails
    remaining_frames,  \* render_animation: frames not crossed off yet
    frame_order,       \* render_animation: the order of rendering
    rendered,          \* the render_frame calls that went through, in order
    driver,            \* batch main / pipeline main: arguments, the paths that
                       \* exist before the run, and where a realizer fails
    position,          \* batch main: index of the for loop over the catalog
    polytwister_names, \* batch main: the local list
    outputs,           \* the paths that exist under the output directory
    manifest,          \* the root manifest.json
    dispatched         \* the render_all_sections_as_objs calls made, in order

realizerVars == <<tree, w, kernel, result, klog, elog>>

normalizerVars ==
    <<scale, max_w_lower_bound, max_w_upper_bound, queries, grid, ret>>

lookupVars == <<name, found>>

softVars == <<soft_polytwister_spec, soft_w, qhull, cross_section, edges>>

callVars == <<calls, returns>>

renderVars == <<request, mesh, divisors, max_distance, out_file, raised>>

frameVars == <<frame_args, frames>>

animationVars == <<animation, remaining_frames, frame_order, rendered>>

driverVars ==
    <<driver, position, polytwister_names, outputs, manifest, dispatched>>

vars ==
    <<op, pc, profile, message, realizerVars, normalizerVars, lookupVars,
      softVars, callVars, renderVars, frameVars, animationVars, driverVars>>

(***************************************************************************)
(* Bounds of the model.                                                    *)
(***************************************************************************)
MaxOperands == 2    \* longest generated operand list of a Boolean node
MaxFail == 3        \* largest index of a kernel call that may fail
MaxGrid == 5        \* most +1 steps of the grid search that are followed
MaxPieces == 3      \* most pieces of a compound soft spec
MaxQueries == 2     \* most cross-section calls under way at the same time
MaxCalls == 2       \* most calls of get_scale_and_max_w on one polytwister
MaxFrames == 12     \* largest num_frames of one animation

(***************************************************************************)
(* Fixed-point units and program constants.                                *)
(***************************************************************************)
Unit == 1000 * 2048
EPSILON == Unit \div 1000
Pi == 6433982
TETRAHEDRON_ZENITH == 3912977
OCTAHEDRON_ZENITH == 1956488
DODECAHEDRON_ZENITH == 2267441
ICOSAHEDRON_ZENITH_1 == 1336029
ICOSAHEDRON_ZENITH_2 == 2830512
Sectors == 3 * 4 * 5

Abs(x) == IF x < 0 THEN -x ELSE x

(***************************************************************************)
(* Solids and Python values.                                               *)
(***************************************************************************)
AllSectors == 0 .. (Sectors - 1)
Empty == {}

Rot(cells, k) == { (c + k) % Sectors : c \in cells }

Arc(center, half) == { (center + d) % Sectors : d \in (0 - half) .. half }

Part(cells) == [kind |-> "part", cells |-> cells, items |-> << >>]
ListOf(items) == [kind |-> "list", cells |-> {}, items |-> items]
None == [kind |-> "none", cells |-> {}, items |-> << >>]

IsPart(v) == v.kind = "part"
IsEmptyPart(v) == v.kind = "part" /\ v.cells = Empty

(***************************************************************************)
(* Tree nodes (hard_polytwisters.py shortcut functions).                   *)
(***************************************************************************)
cycloplane(zenith, azimuth) ==
    [type |-> "cycloplane", zenith |-> zenith, azimuth |-> azimuth]

intersection(nodes) == [type |-> "intersection", operands |-> nodes]

difference(nodes) == [type |-> "difference", operands |-> nodes]

union(nodes) == [type |-> "union", operands |-> nodes]

rotated_copies(node, order) ==
    [type |-> "rotated_copies", order |-> order, operand |-> node]

NORTH_POLE == cycloplane(0, 0)
SOUTH_POLE == cycloplane(Pi, 0)

TETRAHEDRON_NORTH ==
    [i \in 1 .. 3 |->
        cycloplane(Pi - TETRAHEDRON_ZENITH, ((i - 1) * Sectors) \div 3)]

CUBE_EQUATOR ==
    [i \in 1 .. 4 |-> cycloplane(Pi \div 2, ((i - 1) * Sectors) \div 4)]

OCTAHEDRON_NORTH ==
    [i \in 1 .. 4 |-> cycloplane(OCTAHEDRON_ZENITH, ((i - 1) * Sectors) \div 4)]

OCTAHEDRON_SOUTH ==
    [i \in 1 .. 4 |->
        cycloplane(Pi - OCTAHEDRON_ZENITH, ((i - 1) * Sectors) \div 4)]

DODECAHEDRON_NORTH ==
    [i \in 1 .. 5 |->
        cycloplane(DODECAHEDRON_ZENITH, ((i - 1) * Sectors) \div 5)]

\* azimuth (i + 1/2) * 2 * pi / 5
DODECAHEDRON_SOUTH ==
    [i \in 1 .. 5 |->
        cycloplane(Pi - DODECAHEDRON_ZENITH,
                   (((2 * (i - 1)) + 1) * Sectors) \div 10)]

ICOSAHEDRON_NORTH_1 ==
    [i \in 1 .. 5 |->
        cycloplane(ICOSAHEDRON_ZENITH_1, ((i - 1) * Sectors) \div 5)]

ICOSAHEDRON_NORTH_2 ==
    [i \in 1 .. 5 |->
        cycloplane(ICOSAHEDRON_ZENITH_2, ((i - 1) * Sectors) \div 5)]

ICOSAHEDRON_SOUTH_1 ==
    [i \in 1 .. 5 |->
        cycloplane(Pi - ICOSAHEDRON_ZENITH_1,
                   (((2 * (i - 1)) + 1) * Sectors) \div 10)]

ICOSAHEDRON_SOUTH_2 ==
    [i \in 1 .. 5 |->
        cycloplane(Pi - ICOSAHEDRON_ZENITH_2,
                   (((2 * (i - 1)) + 1) * Sectors) \div 10)]

(***************************************************************************)
(* create_cycloplane.  The south-pole branch is the code's; the cylinder   *)
(* branch is represented by its angular footprint: a cylinder about the    *)
(* symmetry axis (theta = 0, so translate_x = w * tan(theta) = 0) covers   *)
(* every sector, a tilted one is an arc pushed towards +X for w > 0 and    *)
(* towards -X for w < 0 (translate_x changes sign with w), wider for a     *)
(* larger zenith (scale_x = 1 / cos(theta) grows with theta), and is       *)
(* finally rotated by phi = azimuth about the symmetry axis.               *)
(***************************************************************************)
_create_south_pole_cycloplane(w_) ==
    IF Abs(w_) >= Unit THEN Empty ELSE AllSectors

CylinderFootprint(w_, zenith) ==
    LET half == IF 2 * zenith < Pi THEN 4 ELSE 12
    IN  IF zenith = 0 THEN AllSectors
        ELSE IF w_ > 0 THEN Arc(0, half)
        ELSE IF w_ < 0 THEN Arc(Sectors \div 2, half)
        ELSE Arc(0, half) \cup Arc(Sectors \div 2, half)

\* abs(theta - math.pi / 2) < EPSILON with theta = zenith / 2, both sides
\* doubled so that an odd zenith keeps its half tick
IsSouthPole_onlyExactly(zenith) == zenith = Pi

IsSouthPole(zenith) == Abs(zenith - Pi) < 2 * EPSILON

create_cycloplane(w_, zenith, azimuth) ==
    IF IsSouthPole(zenith)
    THEN _create_south_pole_cycloplane(w_)
    ELSE Rot(CylinderFootprint(w_, zenith), azimuth)

\* One call of create_cycloplane as the call log keeps it: its arguments,
\* the branch it took, the angles 2 * theta at which it evaluated
\* 1 / math.cos(theta) and math.tan(theta), and the part it returned.
CycloplaneCall(w_, zenith, azimuth) ==
    [w |-> w_, zenith |-> zenith, azimuth |-> azimuth,
     branch |-> IF IsSouthPole(zenith) THEN "south_pole" ELSE "cylinder",
     trig |-> IF IsSouthPole(zenith) THEN {} ELSE {zenith},
     part |-> create_cycloplane(w_, zenith, azimuth)]

(***************************************************************************)
(* make_rotated_copies: copy i (i = 0 .. n-1) is part rotated by           *)
(* i * 2*pi/n, that is by i * Sectors / n sectors.                         *)
(***************************************************************************)
make_rotated_copies_dropLast(part, n) ==
    [i \in 1 .. (n - 1) |-> Rot(part, ((i - 1) * Sectors) \div n)]

make_rotated_copies_fromOne(part, n) ==
    [i \in 1 .. n |-> Rot(part, (i * Sectors) \div n)]

make_rotated_copies(part, n) ==
    [i \in 1 .. n |-> Rot(part, ((i - 1) * Sectors) \div n)]

bubble(x) ==
    IF x.kind = "list"
    THEN [i \in 1 .. Len(x.items) |-> Part(x.items[i])]
    ELSE << x >>

is_empty(part) == part.cells = Empty

(***************************************************************************)
(* A running evaluation: the value produced so far (val), the exception    *)
(* being raised ("none" when there is none) and the two call logs.         *)
(***************************************************************************)
Ok(val, st) ==
    [val |-> val, err |-> "none", msg |-> << >>, klog |-> st.klog, elog |-> st.elog]

RaiseWith(err, msg, st) ==
    [val |-> None, err |-> err, msg |-> msg, klog |-> st.klog, elog |-> st.elog]

Raise(err, st) == RaiseWith(err, << >>, st)

StartState ==
    [val |-> None, err |-> "none", msg |-> << >>, klog |-> << >>, elog |-> << >>]

(***************************************************************************)
(* The text of a ValueError raised by the core, as the sequence of its     *)
(* pieces: literal text, and values formatted into it.  The text of the    *)
(* empty-base error is a literal that names w = 0, the one coordinate at   *)
(* which it is raised.                                                     *)
(***************************************************************************)
Literal(s) == [kind |-> "literal", str |-> s, num |-> 0]

InvalidNodeTypeMessage(type_) ==
    << Literal("Invalid node type "),
       [kind |-> "node type", str |-> type_, num |-> 0] >>

EmptyBaseMessage ==
    << Literal("Cross section at "),
       [kind |-> "w", str |-> "w = 0", num |-> 0],
       Literal(" is empty, something is wrong.") >>

(***************************************************************************)
(* The kernel's Boolean methods Workplane.intersect / cut / union.         *)
(* A call whose receiver holds no solid raises ValueError (the kernel has  *)
(* no solid to operate on); a call whose argument holds no solid, or is    *)
(* None, does what kernel.emptyArg says; the kernel.failAt-th call fails   *)
(* with kernel.failKind; every other call returns the set result.          *)
(***************************************************************************)
KernelOutcome(a, b, idx, orc) ==
    IF IsEmptyPart(a) THEN "ValueError"
    ELSE IF ~IsPart(b) \/ IsEmptyPart(b) THEN orc.emptyArg
    ELSE IF idx = orc.failAt THEN orc.failKind
    ELSE "ok"

KernelResult(method, a, b) ==
    CASE method = "intersect" -> a.cells \cap b.cells
      [] method = "cut"       -> a.cells \ b.cells
      [] method = "union"     -> a.cells \cup b.cells

KernelCall(method, a, b, orc, st) ==
    LET idx == Len(st.klog) + 1
        outcome == KernelOutcome(a, b, idx, orc)
        entry == [op |-> method, a |-> a, b |-> b, outcome |-> outcome]
        st2 == [st EXCEPT !.klog = Append(st.klog, entry)]
    IN  IF outcome = "ok"
        THEN Ok(Part(KernelResult(method, a, b)), st2)
        ELSE Raise(outcome, st2)

safe_intersect_otherOperand(part_1, part_2, orc, st) ==
    IF IsPart(part_1) /\ is_empty(part_1) THEN Ok(part_2, st)
    ELSE LET r == KernelCall("intersect", part_1, part_2, orc, st)
         IN  IF r.err = "ValueError" THEN Ok(Part(Empty), r) ELSE r

safe_intersect(part_1, part_2, orc, st) ==
    LET r == KernelCall("intersect", part_1, part_2, orc, st)
    IN  IF r.err = "ValueError" THEN Ok(Part(Empty), r) ELSE r

safe_cut_noSecondCheck(part_1, part_2, orc, st) ==
    IF ~IsPart(part_1) THEN Raise("AttributeError", st)
    ELSE IF is_empty(part_1) THEN Ok(Part(Empty), st)
    ELSE KernelCall("cut", part_1, part_2, orc, st)

safe_cut_swapped(part_1, part_2, orc, st) ==
    IF ~IsPart(part_1) THEN Raise("AttributeError", st)
    ELSE IF is_empty(part_1) THEN Ok(Part(Empty), st)
    ELSE IF ~IsPart(part_2) THEN Raise("AttributeError", st)
    ELSE IF is_empty(part_2) THEN Ok(part_1, st)
    ELSE KernelCall("cut", part_2, part_1, orc, st)

safe_cut(part_1, part_2, orc, st) ==
    IF ~IsPart(part_1) THEN Raise("AttributeError", st)
    ELSE IF is_empty(part_1) THEN Ok(Part(Empty), st)
    ELSE IF ~IsPart(part_2) THEN Raise("AttributeError", st)
    ELSE IF is_empty(part_2) THEN Ok(part_1, st)
    ELSE KernelCall("cut", part_1, part_2, orc, st)

safe_union_catching(part_1, part_2, orc, st) ==
    IF ~IsPart(part_1) THEN Raise("AttributeError", st)
    ELSE IF is_empty(part_1) THEN Ok(part_2, st)
    ELSE IF ~IsPart(part_2) THEN Raise("AttributeError", st)
    ELSE IF is_empty(part_2) THEN Ok(part_1, st)
    ELSE LET r == KernelCall("union", part_1, part_2, orc, st)
         IN  IF r.err = "ValueError" THEN Ok(Part(Empty), r) ELSE r

safe_union(part_1, part_2, orc, st) ==
    IF ~IsPart(part_1) THEN Raise("AttributeError", st)
    ELSE IF is_empty(part_1) THEN Ok(part_2, st)
    ELSE IF ~IsPart(part_2) THEN Raise("AttributeError", st)
    ELSE IF is_empty(part_2) THEN Ok(part_1, st)
    ELSE KernelCall("union", part_1, part_2, orc, st)

safe_op(type_, part_1, part_2, orc, st) ==
    CASE type_ = "intersection" -> safe_intersect(part_1, part_2, orc, st)
      [] type_ = "difference"   -> safe_cut(part_1, part_2, orc, st)
      [] type_ = "union"        -> safe_union(part_1, part_2, orc, st)

(***************************************************************************)
(* Realizer.                                                               *)
(***************************************************************************)
RealizerW_asGiven(w_) == w_

RealizerW(w_) == IF Abs(w_) > EPSILON THEN w_ ELSE EPSILON

BoolTypes == {"intersection", "difference", "union"}

RECURSIVE FoldOperands(_, _, _, _, _)
FoldOperands(type_, operands, i, orc, st) ==
    \* for operand in operands: st.val is the running `result`
    IF i > Len(operands) \/ st.err # "none" THEN st
    ELSE IF st.val.kind = "none"
         THEN FoldOperands(type_, operands, i + 1, orc, Ok(operands[i], st))
         ELSE FoldOperands(type_, operands, i + 1, orc,
                           safe_op(type_, st.val, operands[i], orc, st))

RECURSIVE traverse(_, _, _, _)
RECURSIVE FoldChildren(_, _, _, _, _, _)

FoldChildren(type_, children, j, selfw, orc, st) ==
    \* for child in node["operands"]: st.val is the running `result`
    IF j > Len(children) \/ st.err # "none" THEN st
    ELSE LET c == traverse(children[j], selfw, orc, st)
         IN  IF c.err # "none" THEN c
             ELSE FoldChildren(type_, children, j + 1, selfw, orc,
                      FoldOperands(type_, bubble(c.val), 1, orc,
                                   [c EXCEPT !.val = st.val]))

traverse_ignoresUnknownTag(node, selfw, orc, st) ==
    IF node.type = "cycloplane"
    THEN Ok(Part(create_cycloplane(selfw, node.zenith, node.azimuth)),
            [st EXCEPT !.elog = Append(st.elog,
                CycloplaneCall(selfw, node.zenith, node.azimuth))])
    ELSE IF node.type = "rotated_copies"
    THEN LET first == traverse(node.operand, selfw, orc, st)
         IN  IF first.err # "none" THEN first
             ELSE IF ~IsPart(first.val) THEN Raise("AttributeError", first)
             ELSE Ok(ListOf(make_rotated_copies(first.val.cells, node.order)), first)
    ELSE IF node.type \in BoolTypes
    THEN FoldChildren(node.type, node.operands, 1, selfw, orc, Ok(None, st))
    ELSE Ok(None, st)

traverse(node, selfw, orc, st) ==
    IF node.type = "cycloplane"
    THEN Ok(Part(create_cycloplane(selfw, node.zenith, node.azimuth)),
            [st EXCEPT !.elog = Append(st.elog,
                CycloplaneCall(selfw, node.zenith, node.azimuth))])
    ELSE IF node.type = "rotated_copies"
    THEN LET first == traverse(node.operand, selfw, orc, st)
         IN  IF first.err # "none" THEN first
             ELSE IF ~IsPart(first.val) THEN Raise("AttributeError", first)
             ELSE Ok(ListOf(make_rotated_copies(first.val.cells, node.order)), first)
    ELSE IF node.type \in BoolTypes
    THEN FoldChildren(node.type, node.operands, 1, selfw, orc, Ok(None, st))
    ELSE RaiseWith("InvalidNodeType", InvalidNodeTypeMessage(node.type), st)

realize(tree_, w_, orc) == traverse(tree_, RealizerW(w_), orc, StartState)

(***************************************************************************)
(* Inputs.                                                                 *)
(***************************************************************************)
Atoms ==
    { SOUTH_POLE, NORTH_POLE, TETRAHEDRON_NORTH[1], TETRAHEDRON_NORTH[2],
      CUBE_EQUATOR[2],
      rotated_copies(TETRAHEDRON_NORTH[1], 3),
      rotated_copies(SOUTH_POLE, 2) }

SeqsUpTo(S, n) == UNION { [1 .. k -> S] : k \in 0 .. n }

GeneratedTrees ==
    { [type |-> t, operands |-> ops] : t \in BoolTypes, ops \in SeqsUpTo(Atoms, MaxOperands) }

Tetratwister == intersection(<<SOUTH_POLE>> \o TETRAHEDRON_NORTH)

Quasitetratwister ==
    union(<< difference(<<intersection(TETRAHEDRON_NORTH), SOUTH_POLE>>),
             rotated_copies(
                 difference(<<intersection(<<SOUTH_POLE, TETRAHEDRON_NORTH[1],
                                             TETRAHEDRON_NORTH[2]>>),
                              TETRAHEDRON_NORTH[3]>>), 3) >>)

BloatedTetratwister ==
    union(<< rotated_copies(
                 difference(<<intersection(<<TETRAHEDRON_NORTH[1], TETRAHEDRON_NORTH[2]>>),
                              SOUTH_POLE, TETRAHEDRON_NORTH[3]>>), 3),
             rotated_copies(
                 difference(<<intersection(<<SOUTH_POLE, TETRAHEDRON_NORTH[1]>>),
                              TETRAHEDRON_NORTH[2], TETRAHEDRON_NORTH[3]>>), 3) >>)

SpecialTrees ==
    { Tetratwister, Quasitetratwister, BloatedTetratwister,
      intersection(CUBE_EQUATOR),
      difference(<<TETRAHEDRON_NORTH[1], SOUTH_POLE, CUBE_EQUATOR[2]>>),
      difference(<<rotated_copies(TETRAHEDRON_NORTH[1], 3), CUBE_EQUATOR[2],
                   rotated_copies(TETRAHEDRON_NORTH[2], 2)>>),
      union(<<SOUTH_POLE, TETRAHEDRON_NORTH[1], CUBE_EQUATOR[2]>>),
      union(<<rotated_copies(intersection(<<CUBE_EQUATOR[1], TETRAHEDRON_NORTH[1]>>), 5),
              rotated_copies(difference(<<CUBE_EQUATOR[1], CUBE_EQUATOR[2]>>), 5)>>),
      union(<<rotated_copies(CUBE_EQUATOR[1], 4)>>),
      rotated_copies(rotated_copies(NORTH_POLE, 2), 2),
      rotated_copies(intersection(<<CUBE_EQUATOR[1], CUBE_EQUATOR[2]>>), 4),
      intersection(<<NORTH_POLE, [type |-> "hull"]>>),
      [type |-> "hull"],
      intersection(<<union(<< >>), NORTH_POLE>>),
      difference(<<NORTH_POLE, union(<< >>)>>),
      rotated_copies(intersection(<< >>), 3),
      union(<<rotated_copies(intersection(<<CUBE_EQUATOR[1], [type |-> "hull"]>>), 3)>>),
      difference(<<TETRAHEDRON_NORTH[1], CUBE_EQUATOR[2],
                   union(<<NORTH_POLE, [type |-> "hull"]>>)>>) }

\* Cycloplanes whose point lies at and next to the edge of the EPSILON
\* neighbourhood of the south pole.
NearSouthPole ==
    { cycloplane(z, 0) :
        z \in { Pi - (2 * EPSILON), (Pi - (2 * EPSILON)) + 1, Pi - 1, Pi + 1,
                (Pi + (2 * EPSILON)) - 1, Pi + (2 * EPSILON) } }

Trees == Atoms \cup GeneratedTrees \cup SpecialTrees \cup NearSouthPole

WValues ==
    { 0, EPSILON \div 2, 0 - (EPSILON \div 2), Unit \div 2, 0 - (Unit \div 2),
      Unit, 0 - Unit, Unit + (Unit \div 2),
      EPSILON, 0 - EPSILON, 0 - (EPSILON + 1) }

ExceptionKinds == {"ValueError", "OtherError"}

Kernels ==
    { [failAt |-> f, failKind |-> k, emptyArg |-> e] :
        f \in 0 .. MaxFail, k \in ExceptionKinds, e \in {"ok"} \cup ExceptionKinds }

(***************************************************************************)
(* Normalizer.  get_max_distance_from_origin realizes the cross-section    *)
(* (through Realizer(w), which replaces |w| <= EPSILON by EPSILON),        *)
(* tessellates it and returns the largest vertex distance, 0.0 for an      *)
(* empty mesh.  The tessellated geometry is not represented; a polytwister *)
(* enters the normalizer as the function D it induces, a profile           *)
(*   base    D at w = 0 (0 when the base cross-section is empty),          *)
(*   bounded whether the solid is bounded along w,                         *)
(*   extent  the solid's half-width along w: D(w) > 0 iff |w| < extent.    *)
(* Every cycloplane, hence every Boolean combination of cycloplanes, is    *)
(* carried onto itself by the Hopf rotations of 4-space, under which the   *)
(* w coordinate of a point sweeps [-r, r]; so the set of w with a          *)
(* non-empty section is an interval symmetric about 0.  A single           *)
(* cycloplane at the north pole is the same cylinder at every w            *)
(* (bounded = FALSE).                                                      *)
(***************************************************************************)
Tolerance == Unit \div 100
GridStep == Unit

NonEmptyAt(polytwister, x) ==
    /\ polytwister.base > 0
    /\ (polytwister.bounded => Abs(x) < polytwister.extent)

get_max_distance_from_origin(polytwister, w_) ==
    LET x == RealizerW(w_)
    IN  IF ~NonEmptyAt(polytwister, x) THEN 0
        ELSE IF Abs(x) <= EPSILON THEN polytwister.base
        ELSE 1 + (polytwister.base \div 2)

\* scale = 1 / max_distance_from_origin_zero
ScaleOf(distance) == [num |-> 1, den |-> distance]

\* max_w = (max_w_lower_bound + max_w_upper_bound) / 2
Midpoint(lower, upper) == (lower + upper) \div 2

Bases == { (14 * Unit) \div 100, (32 * Unit) \div 100, Unit \div 2, Unit, (13 * Unit) \div 10 }

Extents ==
    { EPSILON + 2, Unit \div 200, (3 * Unit) \div 10, ((7 * Unit) \div 10) + 2,
      Unit, 1234 * (Unit \div 1000), (5 * Unit) \div 2, 3 * Unit,
      (42 * Unit) \div 10 }

EmptyProfile == [base |-> 0, bounded |-> TRUE, extent |-> 0]

Profiles ==
    {EmptyProfile}
    \cup { [base |-> b, bounded |-> TRUE, extent |-> e] : b \in Bases, e \in Extents }
    \cup { [base |-> b, bounded |-> FALSE, extent |-> 0] : b \in Bases }

NoScale == [num |-> 0, den |-> 1]
NoReturn == [kind |-> "none", scale |-> NoScale, max_w |-> 0]

(***************************************************************************)
(* Catalog and lookup (soft_polytwisters.py, hard_polytwisters.py,         *)
(* all_polytwisters.py, common.py).  A string is the sequence of its       *)
(* characters.  Of a catalog entry only the fields the lookup reads or     *)
(* sets are kept: names, type and name.                                    *)
(***************************************************************************)
W_twister == <<"t", "w", "i", "s", "t", "e", "r">>
W_tetra == <<"t", "e", "t", "r", "a">>
W_cube == <<"c", "u", "b", "e">>
W_octa == <<"o", "c", "t", "a">>
W_dodeca == <<"d", "o", "d", "e", "c", "a">>
W_icosa == <<"i", "c", "o", "s", "a">>
W_cosa == <<"c", "o", "s", "a">>
W_quasi == <<"q", "u", "a", "s", "i">>
W_bloated == <<"b", "l", "o", "a", "t", "e", "d">>
W_inverted == <<"i", "n", "v", "e", "r", "t", "e", "d">>
W_great == <<"g", "r", "e", "a", "t">>
W_small == <<"s", "m", "a", "l", "l">>
W_stellated == <<"s", "t", "e", "l", "l", "a", "t", "e", "d">>
W_quasistellated == <<"q", "u", "a", "s", "i", "s", "t", "e", "l", "l", "a", "t", "e", "d">>
W_soft == <<"s", "o", "f", "t">>
W_dyadic == <<"d", "y", "a", "d", "i", "c">>
W_duospindle == <<"d", "u", "o", "s", "p", "i", "n", "d", "l", "e">>
W_sp == <<" ">>
W_order(n) == <<"o", "r", "d", "e", "r", "-", n>>

Named(names) == [names |-> names]

get_soft_dyadic_twister(n, special_names) ==
    Named(special_names \o << W_order(n) \o W_sp \o W_soft \o W_sp \o W_dyadic \o W_sp \o W_twister >>)

SoftList ==
    << get_soft_dyadic_twister("2", << W_duospindle >>),
       get_soft_dyadic_twister("3", << >>),
       get_soft_dyadic_twister("4", << >>),
       get_soft_dyadic_twister("5", << >>),
       Named(<< W_soft \o W_sp \o W_tetra \o W_twister >>),
       Named(<< W_soft \o W_sp \o W_cube \o W_twister >>),
       Named(<< W_soft \o W_sp \o W_octa \o W_twister >>),
       Named(<< W_soft \o W_sp \o W_dodeca \o W_twister >>),
       Named(<< W_soft \o W_sp \o W_icosa \o W_twister >> ) >>

Plain(solid) == Named(<< solid \o W_twister >>)

Quasi(solid) == Named(<< W_quasi \o solid \o W_twister >>)

Bloated(solid) ==
    Named(<< W_bloated \o W_sp \o solid \o W_twister,
             W_inverted \o W_sp \o solid \o W_twister >>)

\* A polytwister dict of the hard catalog: its names and its tree.
WithTree(named, tree_) == [names |-> named.names, tree |-> tree_]

Digit(n) == <<"0", "1", "2", "3", "4", "5", "6", "7", "8", "9">>[n + 1]

get_dyadic_twister_noOperands(n) ==
    WithTree(Named(<< W_order(Digit(n)) \o W_sp \o W_dyadic \o W_sp \o W_twister >>),
             intersection(<< >>))

get_dyadic_twister(n) ==
    WithTree(Named(<< W_order(Digit(n)) \o W_sp \o W_dyadic \o W_sp \o W_twister >>),
             intersection([i \in 1 .. n |->
                 cycloplane(Pi \div 2, ((i - 1) * Sectors) \div n)]))

get_tetratwister == WithTree(Plain(W_tetra), Tetratwister)

get_cubetwister ==
    WithTree(Plain(W_cube), intersection(<<NORTH_POLE, SOUTH_POLE>> \o CUBE_EQUATOR))

get_octatwister ==
    WithTree(Plain(W_octa), intersection(OCTAHEDRON_NORTH \o OCTAHEDRON_SOUTH))

get_dodecatwister ==
    WithTree(Plain(W_dodeca),
             intersection(<<NORTH_POLE, SOUTH_POLE>> \o DODECAHEDRON_NORTH
                          \o DODECAHEDRON_SOUTH))

get_icosatwister ==
    WithTree(Plain(W_icosa),
             intersection(ICOSAHEDRON_NORTH_1 \o ICOSAHEDRON_NORTH_2
                          \o ICOSAHEDRON_SOUTH_1 \o ICOSAHEDRON_SOUTH_2))

get_quasitetratwister == WithTree(Quasi(W_tetra), Quasitetratwister)

get_bloated_tetratwister == WithTree(Bloated(W_tetra), BloatedTetratwister)

get_quasicubetwister ==
    LET equators == CUBE_EQUATOR
        north_ring ==
            difference(<< intersection(<<NORTH_POLE, equators[1], equators[2]>>),
                          intersection(<<SOUTH_POLE, equators[3], equators[4]>>) >>)
        south_ring ==
            difference(<< intersection(<<SOUTH_POLE, equators[1], equators[2]>>),
                          intersection(<<NORTH_POLE, equators[3], equators[4]>>) >>)
    IN  WithTree(Quasi(W_cube),
                 union(<< rotated_copies(north_ring, 4),
                          rotated_copies(south_ring, 4) >>))

get_bloated_cubetwister ==
    LET equators == CUBE_EQUATOR
        ring_1 == intersection(<<NORTH_POLE, equators[1]>>)
        ring_2 == intersection(<<equators[1], equators[2]>>)
        ring_3 == intersection(<<equators[1], SOUTH_POLE>>)
    IN  WithTree(Bloated(W_cube),
                 union(<< rotated_copies(ring_1, 4), rotated_copies(ring_2, 4),
                          rotated_copies(ring_3, 4) >>))

get_quasioctatwister ==
    LET north == OCTAHEDRON_NORTH
        south == OCTAHEDRON_SOUTH
        ring_1 == intersection(north)
        ring_2 == rotated_copies(
                      intersection(<<north[1], north[2], south[1], south[2]>>), 4)
        ring_3 == intersection(south)
    IN  WithTree(Quasi(W_octa), union(<<ring_1, ring_2, ring_3>>))

get_bloated_octatwister ==
    LET north == OCTAHEDRON_NORTH
        south == OCTAHEDRON_SOUTH
        ring_1 == intersection(<<north[1], north[2]>>)
        ring_2 == intersection(<<north[1], south[1]>>)
        ring_3 == intersection(<<south[1], south[2]>>)
    IN  WithTree(Bloated(W_octa),
                 union(<< rotated_copies(ring_1, 4), rotated_copies(ring_2, 4),
                          rotated_copies(ring_3, 4) >>))

get_quasidodecatwister ==
    LET north == DODECAHEDRON_NORTH
        south == DODECAHEDRON_SOUTH
        ring_1 == intersection(<<NORTH_POLE, north[1], north[2]>>)
        ring_2 == intersection(<<north[1], north[2], south[1]>>)
        ring_3 == intersection(<<north[2], south[1], south[2]>>)
        ring_4 == intersection(<<SOUTH_POLE, south[1], south[2]>>)
    IN  WithTree(Quasi(W_dodeca),
                 union(<< rotated_copies(ring_1, 5), rotated_copies(ring_2, 5),
                          rotated_copies(ring_3, 5), rotated_copies(ring_4, 5) >>))

get_bloated_dodecatwister ==
    LET north == DODECAHEDRON_NORTH
        south == DODECAHEDRON_SOUTH
        ring_1 == intersection(<<NORTH_POLE, north[1]>>)
        ring_2 == intersection(<<north[1], north[2]>>)
        ring_3 == intersection(<<north[1], south[1]>>)
        ring_4 == intersection(<<south[1], north[2]>>)
        ring_5 == intersection(<<south[1], south[2]>>)
        ring_6 == intersection(<<SOUTH_POLE, south[1]>>)
    IN  WithTree(Bloated(W_dodeca),
                 union(<< rotated_copies(ring_1, 5), rotated_copies(ring_2, 5),
                          rotated_copies(ring_3, 5), rotated_copies(ring_4, 5),
                          rotated_copies(ring_5, 5), rotated_copies(ring_6, 5) >>))

get_quasicosatwister ==
    LET north_1 == ICOSAHEDRON_NORTH_1
        north_2 == ICOSAHEDRON_NORTH_2
        south_2 == ICOSAHEDRON_SOUTH_2
        south_1 == ICOSAHEDRON_SOUTH_1
        ring_1 == intersection(ICOSAHEDRON_NORTH_1)
        ring_2 == intersection(<<north_1[1], north_1[2], north_2[1], north_2[2],
                                 south_2[1]>>)
        ring_3 == intersection(<<south_1[1], south_1[2], south_2[1], south_2[2],
                                 north_2[2]>>)
        ring_4 == intersection(ICOSAHEDRON_SOUTH_1)
    IN  WithTree(Quasi(W_cosa),
                 union(<< ring_1, rotated_copies(ring_2, 5),
                          rotated_copies(ring_3, 5), ring_4 >>))

get_bloated_icosatwister ==
    LET north_1 == ICOSAHEDRON_NORTH_1
        north_2 == ICOSAHEDRON_NORTH_2
        south_2 == ICOSAHEDRON_SOUTH_2
        south_1 == ICOSAHEDRON_SOUTH_1
        rings == << intersection(<<north_1[1], north_1[2]>>),
                    intersection(<<north_1[1], north_2[1]>>),
                    intersection(<<north_2[1], south_2[1]>>),
                    intersection(<<north_2[2], south_2[1]>>),
                    intersection(<<south_1[1], south_2[1]>>),
                    intersection(<<south_1[1], south_1[2]>>) >>
    IN  WithTree(Bloated(W_icosa),
                 union([x \in DOMAIN rings |-> rotated_copies(rings[x], 5)]))

\* pairs (edge_1, edge_2); north[-1] and south[-1] are the last entries
get_great_dodecahedron_edges ==
    LET north == DODECAHEDRON_NORTH
        south == DODECAHEDRON_SOUTH
    IN  << << <<north[1], north[3]>>, <<NORTH_POLE, north[2]>> >>,
           << <<NORTH_POLE, south[1]>>, <<north[1], north[2]>> >>,
           << <<north[2], south[5]>>, <<north[1], south[1]>> >>,
           << <<north[1], south[2]>>, <<north[2], south[1]>> >>,
           << <<SOUTH_POLE, north[2]>>, <<south[1], south[2]>> >>,
           << <<south[1], south[3]>>, <<SOUTH_POLE, south[2]>> >> >>

get_great_dodecatwister ==
    LET edges_ == get_great_dodecahedron_edges
        rings == [k \in DOMAIN edges_ |->
                     difference(<< intersection(edges_[k][1]), union(edges_[k][2]) >>)]
    IN  WithTree(Named(<< W_great \o W_sp \o W_dodeca \o W_twister >>),
                 union([x \in DOMAIN rings |-> rotated_copies(rings[x], 5)]))

get_great_quasidodecatwister ==
    LET edges_ == get_great_dodecahedron_edges
        rings == [k \in DOMAIN edges_ |->
                     difference(<< intersection(edges_[k][1]),
                                   intersection(edges_[k][2]) >>)]
    IN  WithTree(Named(<< W_great \o W_sp \o W_quasi \o W_dodeca \o W_twister >>),
                 union([x \in DOMAIN rings |-> rotated_copies(rings[x], 5)]))

get_great_bloated_dodecatwister ==
    LET edges_ == get_great_dodecahedron_edges
        rings == [k \in DOMAIN edges_ |-> intersection(edges_[k][1])]
    IN  WithTree(Named(<< W_great \o W_sp \o W_bloated \o W_sp \o W_dodeca
                          \o W_twister >>),
                 union([x \in DOMAIN rings |-> rotated_copies(rings[x], 5)]))

\* spikes as pairs (cycloplanes to intersect, cycloplane to subtract)
get_small_stellated_dodecahedron_spikes ==
    LET north == DODECAHEDRON_NORTH
        south == DODECAHEDRON_SOUTH
        ring_1 == << north, NORTH_POLE >>
        ring_2 == << <<NORTH_POLE, north[5], north[2], south[5], south[1]>>,
                     north[1] >>
        ring_3 == << <<SOUTH_POLE, south[5], south[2], north[1], north[2]>>,
                     south[1] >>
        ring_4 == << south, SOUTH_POLE >>
    IN  [poles |-> <<ring_1, ring_4>>, rest |-> <<ring_2, ring_3>>]

get_small_stellated_dodecatwister ==
    LET spikes == get_small_stellated_dodecahedron_spikes
        Spike(spike) == difference(<< intersection(spike[1]), spike[2] >>)
        parts == [k \in DOMAIN spikes.poles |-> Spike(spikes.poles[k])]
                 \o [k \in DOMAIN spikes.rest |->
                        rotated_copies(Spike(spikes.rest[k]), 5)]
    IN  WithTree(Named(<< W_small \o W_sp \o W_stellated \o W_sp \o W_dodeca
                          \o W_twister >>),
                 union(parts))

get_small_quasistellated_dodecatwister ==
    LET spikes == get_small_stellated_dodecahedron_spikes
        parts == [k \in DOMAIN spikes.poles |-> intersection(spikes.poles[k][1])]
                 \o [k \in DOMAIN spikes.rest |->
                        rotated_copies(intersection(spikes.rest[k][1]), 5)]
    IN  WithTree(Named(<< W_small \o W_sp \o W_quasistellated \o W_sp \o W_dodeca
                          \o W_twister >>),
                 union(parts))

HardList ==
    << get_dyadic_twister(3), get_dyadic_twister(4), get_dyadic_twister(5),
       get_tetratwister, get_quasitetratwister, get_bloated_tetratwister,
       get_cubetwister, get_quasicubetwister, get_bloated_cubetwister,
       get_octatwister, get_quasioctatwister, get_bloated_octatwister,
       get_dodecatwister, get_quasidodecatwister, get_bloated_dodecatwister,
       get_icosatwister, get_quasicosatwister, get_bloated_icosatwister,
       get_great_dodecatwister, get_great_quasidodecatwister,
       get_great_bloated_dodecatwister, get_small_stellated_dodecatwister,
       get_small_quasistellated_dodecatwister >>

\* The loop of get_all_soft_polytwisters / get_all_hard_polytwisters:
\* result[names[0]] = polytwister, with "type" and "name" set; a later entry
\* of the list replaces an earlier one under the same key.
CatalogOf(polytwisters_list, type_) ==
    LET keys == { polytwisters_list[i].names[1] : i \in DOMAIN polytwisters_list }
        last(k) == CHOOSE i \in DOMAIN polytwisters_list :
                       /\ polytwisters_list[i].names[1] = k
                       /\ \A j \in DOMAIN polytwisters_list :
                              polytwisters_list[j].names[1] = k => j <= i
        Entry(polytwister, k) ==
            IF "tree" \in DOMAIN polytwister
            THEN [names |-> polytwister.names, tree |-> polytwister.tree,
                  type |-> type_, name |-> k]
            ELSE [names |-> polytwister.names, type |-> type_, name |-> k]
    IN  [k \in keys |-> Entry(polytwisters_list[last(k)], k)]

get_all_soft_polytwisters == CatalogOf(SoftList, "soft")

get_all_hard_polytwisters == CatalogOf(HardList, "hard")

\* dict.update
Update(dict, other) ==
    [k \in DOMAIN dict \cup DOMAIN other |->
        IF k \in DOMAIN other THEN other[k] ELSE dict[k]]

normalize_polytwister_name_unchanged(name_) == name_

\* name.replace("_", " ")
normalize_polytwister_name(name_) ==
    [i \in 1 .. Len(name_) |-> IF name_[i] = "_" THEN " " ELSE name_[i]]

NotFound == [names |-> << >>, type |-> "none", name |-> << >>]

\* get_polytwister: the spec returned, or KeyError
get_polytwister(name_) ==
    LET Get(normalized_name, all_polytwisters) ==
            IF normalized_name \in DOMAIN all_polytwisters
            THEN [kind |-> "return", spec |-> all_polytwisters[normalized_name]]
            ELSE [kind |-> "KeyError", spec |-> NotFound]
    IN  Get(normalize_polytwister_name(name_),
            Update(Update(<< >>, get_all_soft_polytwisters), get_all_hard_polytwisters))

\* Names asked for: every catalog name (aliases included) with any of its
\* spaces written as underscores, with a capital first letter, with a
\* character appended, and a few names of no catalog entry.
NamesOf(polytwisters_list) ==
    UNION { { polytwisters_list[i].names[j] : j \in DOMAIN polytwisters_list[i].names } :
            i \in DOMAIN polytwisters_list }

AllNames == NamesOf(SoftList) \cup NamesOf(HardList)

SpacePositions(n) == { i \in DOMAIN n : n[i] = " " }

Underscored(n, S) == [i \in DOMAIN n |-> IF i \in S THEN "_" ELSE n[i]]

ToUpper(c) ==
    CASE c = "t" -> "T" [] c = "o" -> "O" [] c = "s" -> "S" [] c = "d" -> "D"
      [] c = "q" -> "Q" [] c = "b" -> "B" [] c = "c" -> "C" [] c = "i" -> "I"
      [] c = "g" -> "G" [] OTHER -> c

Capitalized(n) == [i \in DOMAIN n |-> IF i = 1 THEN ToUpper(n[i]) ELSE n[i]]

LookupNames ==
    UNION { { Underscored(n, S) : S \in SUBSET SpacePositions(n) }
            \cup { Capitalized(n), n \o <<"s">>, n \o <<"_">>, <<"_">> \o n }
            : n \in AllNames }
    \cup { << >>, W_twister, W_soft, W_sp, W_great \o W_sp \o W_icosa \o W_twister }

(***************************************************************************)
(* Soft slicer (soft_polytwister_section.py).  A 4D point is <<x, y, z, w>>*)
(* with w in Unit ticks and x, y, z in XUnit ticks per 1.0; a 3D point is  *)
(* <<x, y, z>>.  A hull is a record of its points and its simplices, a     *)
(* simplex being a tuple of indices into points, counted from 0 as in the  *)
(* code.  The two convex-hull computations are scipy's: the 4D hull that   *)
(* get_soft_polytwister returns is an input, and of the 3D hull only what  *)
(* the code relies on is kept (points is the array handed in, simplices    *)
(* are index triples into it); whether it fails is an input (qhull).       *)
(***************************************************************************)
XUnit == 100

NoSection == [kind |-> "none", points |-> << >>, simplices |-> << >>]

\* numpy.allclose(a, b): |a - b| <= atol + rtol * |b|, atol = 1e-8,
\* rtol = 1e-5; both sides multiplied by 1e5.
AllClose(a, b) ==
    /\ Abs(a - b) <= 1000
    /\ 100000 * Abs(a - b) <= (Unit \div 1000) + Abs(b)

\* itertools.combinations(range(4), 2), as positions counted from 1
SimplexEdges == << <<1, 2>>, <<1, 3>>, <<1, 4>>, <<2, 3>>, <<2, 4>>, <<3, 4>> >>

\* p[:-1]
Project(p) == << p[1], p[2], p[3] >>

RECURSIVE GCD(_, _)
GCD(a, b) == IF b = 0 THEN a ELSE GCD(b, a % b)

\* a * t for the fraction t, rounded to the nearest tick; the fraction
\* a / t.den is reduced first, which leaves the value as it is.
MulDiv(a, t) ==
    LET n == IF t.den < 0 THEN 0 - t.num ELSE t.num
        d == Abs(t.den)
        g == GCD(d, Abs(a) % d)
    IN  ((2 * ((a \div g) * n)) + (d \div g)) \div (2 * (d \div g))

T_fromSecond(p_1, p_2, w_) == [num |-> w_ - p_2[4], den |-> p_2[4] - p_1[4]]

\* t = (w - w_1) / (w_2 - w_1), as the fraction num / den
T(p_1, p_2, w_) == [num |-> w_ - p_1[4], den |-> p_2[4] - p_1[4]]

\* p = p_1 + (p_2 - p_1) * t, all four coordinates
Interpolate(p_1, p_2, t) ==
    [c \in 1 .. 4 |-> p_1[c] + MulDiv(p_2[c] - p_1[c], t)]

\* the interpolated point, projected
Intersect(p_1, p_2, w_) == Project(Interpolate(p_1, p_2, T(p_1, p_2, w_)))

EdgePoints_closed(p_1, p_2, w_) ==
    LET w_1 == p_1[4]
        w_2 == p_2[4]
    IN  IF (w_1 <= w_ /\ w_ <= w_2) \/ (w_2 <= w_ /\ w_ <= w_1)
        THEN IF AllClose(w_1, w_2)
             THEN << Project(p_1), Project(p_2) >>
             ELSE << Intersect(p_1, p_2, w_) >>
        ELSE << >>

EdgePoints_upperClosed(p_1, p_2, w_) ==
    LET w_1 == p_1[4]
        w_2 == p_2[4]
    IN  IF (w_1 < w_ /\ w_ <= w_2) \/ (w_2 < w_ /\ w_ <= w_1)
        THEN IF AllClose(w_1, w_2)
             THEN << Project(p_1), Project(p_2) >>
             ELSE << Intersect(p_1, p_2, w_) >>
        ELSE << >>

\* The body of the loop over the six edges: the points one edge appends to
\* cross_section_points.
EdgePoints(p_1, p_2, w_) ==
    LET w_1 == p_1[4]
        w_2 == p_2[4]
    IN  IF (w_1 <= w_ /\ w_ < w_2) \/ (w_2 <= w_ /\ w_ < w_1)
        THEN IF AllClose(w_1, w_2)
             THEN << Project(p_1), Project(p_2) >>
             ELSE << Intersect(p_1, p_2, w_) >>
        ELSE << >>

\* What the else branch of an edge computes, when it is taken: t and the
\* 4D point p whose projection is appended.
Interpolations(p_1, p_2, w_) ==
    IF Len(EdgePoints(p_1, p_2, w_)) = 1
    THEN << [t |-> T(p_1, p_2, w_),
             p |-> Interpolate(p_1, p_2, T(p_1, p_2, w_))] >>
    ELSE << >>

\* The two nested loops, in order: entry k is edge (k-1) % 6 of simplex
\* (k-1) \div 6, with the points it appended.
EdgeLog(hull, w_) ==
    [k \in 1 .. (6 * Len(hull.simplices)) |->
        LET simplex == hull.simplices[((k - 1) \div 6) + 1]
            edge == SimplexEdges[((k - 1) % 6) + 1]
            p_1 == hull.points[simplex[edge[1]] + 1]
            p_2 == hull.points[simplex[edge[2]] + 1]
        IN  [simplex |-> (k - 1) \div 6, i |-> edge[1] - 1, j |-> edge[2] - 1,
             p_1 |-> p_1, p_2 |-> p_2, points |-> EdgePoints(p_1, p_2, w_),
             interpolated |-> Interpolations(p_1, p_2, w_)]]

RECURSIVE Appended(_, _)
Appended(log, k) ==
    \* cross_section_points after the first k edges
    IF k = 0 THEN << >> ELSE Appended(log, k - 1) \o log[k].points

\* rotation @ p: 90 degrees in the YZ-plane
Rotated(p) == << p[1], 0 - p[3], p[2] >>

\* scipy.spatial.ConvexHull on 3D points: points is the input array;
\* simplices stands for the triangles Qhull returns, as index triples
\* that use the first and the last index.
Facets(n) == << <<0, 1, 2>>, <<0, 1, n - 1>>, <<0, 2, n - 1>>, <<1, 2, n - 1>> >>

ConvexHull(points) ==
    [kind |-> "hull", points |-> points, simplices |-> Facets(Len(points))]

get_cross_section_notCaught(hull, w_, fails) ==
    LET Section(log) ==
            LET cross_section_points == Appended(log, Len(log))
                rotated == [n \in DOMAIN cross_section_points |->
                               Rotated(cross_section_points[n])]
            IN  IF Len(cross_section_points) < 4
                THEN [log |-> log, err |-> "none", ret |-> NoSection]
                ELSE IF fails
                THEN [log |-> log, err |-> "QhullError", ret |-> NoSection]
                ELSE [log |-> log, err |-> "none", ret |-> ConvexHull(rotated)]
    IN  Section(EdgeLog(hull, w_))

\* get_cross_section(hull, w): what it returns (ret; None is NoSection),
\* what it raises (err) and the edges it went through (log).  fails tells
\* whether the 3D hull computation raises QhullError.
get_cross_section(hull, w_, fails) ==
    LET Section(log) ==
            LET cross_section_points == Appended(log, Len(log))
                rotated == [n \in DOMAIN cross_section_points |->
                               Rotated(cross_section_points[n])]
            IN  IF Len(cross_section_points) < 4
                THEN [log |-> log, err |-> "none", ret |-> NoSection]
                ELSE IF fails
                THEN [log |-> log, err |-> "none", ret |-> NoSection]
                ELSE [log |-> log, err |-> "none", ret |-> ConvexHull(rotated)]
    IN  Section(EdgeLog(hull, w_))

MockHull(points, simplices) ==
    [kind |-> "mock", points |-> points, simplices |-> simplices]

\* hull.simplices + offset
Shifted(simplices, offset) ==
    [n \in DOMAIN simplices |->
        [c \in DOMAIN simplices[n] |-> simplices[n][c] + offset]]

RECURSIVE MergeLoop(_, _, _, _, _)
MergeLoop(hulls, k, points, simplices, offset) ==
    \* for hull in hulls, from the k-th on
    IF k > Len(hulls) THEN MockHull(points, simplices)
    ELSE MergeLoop(hulls, k + 1,
                   points \o hulls[k].points,
                   simplices \o Shifted(hulls[k].simplices, offset),
                   offset + Len(hulls[k].points))

RECURSIVE MergeLoop_noOffset(_, _, _, _, _)
MergeLoop_noOffset(hulls, k, points, simplices, offset) ==
    IF k > Len(hulls) THEN MockHull(points, simplices)
    ELSE MergeLoop_noOffset(hulls, k + 1,
                   points \o hulls[k].points,
                   simplices \o hulls[k].simplices,
                   offset + Len(hulls[k].points))

merge_hulls_noOffset(hulls) == MergeLoop_noOffset(hulls, 1, << >>, << >>, 0)

merge_hulls(hulls) == MergeLoop(hulls, 1, << >>, << >>, 0)

\* The spec as the slicer sees it: compound, and the 4D hull that
\* get_soft_polytwister returns for "points" or for each of "pieces".
SoftSpec(compound, hulls) == [compound |-> compound, hulls |-> hulls]

\* get_soft_polytwister_cross_section: ret, err, and the edge log of each
\* get_cross_section call (logs).
get_soft_polytwister_cross_section(soft_polytwister_spec_, w_, failing) ==
    LET Raising(sections) == { n \in DOMAIN sections : sections[n].err # "none" }
        Components(sections) ==
            SelectSeq([n \in DOMAIN sections |-> sections[n].ret],
                      LAMBDA c : c.kind # "none")
        Result(sections, logs, raising, components) ==
            IF raising # {}
            THEN [ret |-> NoSection, logs |-> logs,
                  err |-> sections[CHOOSE n \in raising : \A m \in raising : n <= m].err]
            ELSE IF soft_polytwister_spec_.compound
            THEN [ret |-> IF Len(components) = 0 THEN NoSection
                          ELSE merge_hulls(components),
                  err |-> "none", logs |-> logs]
            ELSE [ret |-> sections[1].ret, err |-> "none", logs |-> logs]
        Sections(sections) ==
            Result(sections, [n \in DOMAIN sections |-> sections[n].log],
                   Raising(sections), Components(sections))
    IN  Sections([n \in DOMAIN soft_polytwister_spec_.hulls |->
                     get_cross_section(soft_polytwister_spec_.hulls[n], w_,
                                       n \in failing)])

(***************************************************************************)
(* Inputs of the soft slicer: the boundary of a 4-simplex with two         *)
(* vertices at w = 0 and two whose w differ by less than the allclose      *)
(* tolerance, and a bipyramid over a tetrahedron lying in w = 0.           *)
(***************************************************************************)
Simplex5 ==
    [points |-> << <<XUnit, 0, 0, 0>>,
                   <<0 - XUnit, 0, 0, 0>>,
                   <<0, XUnit, 0, Unit>>,
                   <<0, 0, XUnit, Unit + 5>>,
                   <<0, 0 - XUnit, 0 - XUnit, 0 - Unit>> >>,
     simplices |-> << <<0, 1, 2, 3>>, <<0, 1, 2, 4>>, <<0, 1, 3, 4>>,
                      <<0, 2, 3, 4>>, <<1, 2, 3, 4>> >>]

Bipyramid ==
    [points |-> << <<XUnit, XUnit, XUnit, 0>>,
                   <<0 - XUnit, 0 - XUnit, XUnit, 0>>,
                   <<XUnit, 0 - XUnit, 0 - XUnit, 0>>,
                   <<0 - XUnit, XUnit, 0 - XUnit, 0>>,
                   <<0, 0, 0, Unit>>,
                   <<0, 0, 0, 0 - Unit>> >>,
     simplices |-> << <<0, 1, 2, 4>>, <<0, 1, 3, 4>>, <<0, 2, 3, 4>>, <<1, 2, 3, 4>>,
                      <<0, 1, 2, 5>>, <<0, 1, 3, 5>>, <<0, 2, 3, 5>>, <<1, 2, 3, 5>> >>]

Hulls4D == {Simplex5, Bipyramid}

SoftSpecs ==
    { SoftSpec(FALSE, << h >>) : h \in Hulls4D }
    \cup { SoftSpec(TRUE, hs) :
             hs \in UNION { [1 .. k -> Hulls4D] : k \in 1 .. MaxPieces } }

SoftWValues ==
    { 0 - (2 * Unit), 0 - Unit, 0 - (Unit \div 2), 0, Unit \div 2, Unit,
      Unit + 2, Unit + 5, 2 * Unit }

(***************************************************************************)
(* Meshes and OBJ files.  A mesh is the pair <<vertices, triangles>>; a    *)
(* vertex of a tessellated hard section is kept as the sector it lies in   *)
(* and its distance r from the origin (XUnit ticks per 1.0), which is all  *)
(* abs(vertex) and vertex * scale look at.  shape.tessellate is the        *)
(* kernel's: one vertex per sector of the part, near the radius chosen in  *)
(* Init, and a fan of triangles over them.  A scale is a fraction          *)
(* num / den.  An OBJ file is the sequence of its lines.                   *)
(***************************************************************************)
EmptyMesh == << << >>, << >> >>

\* the sectors of a part in ascending order
Ascending(S) ==
    SelectSeq([i \in 1 .. Sectors |-> i - 1], LAMBDA c : c \in S)

Tessellate(cells, radius) ==
    LET order == Ascending(cells)
    IN  << [i \in DOMAIN order |-> [sector |-> order[i], r |-> radius + order[i]]],
           [i \in 1 .. (Len(order) - 2) |-> <<0, i, i + 1>>] >>

\* a realize result that is no Workplane has no attribute "objects"
discretize_workplane(workplane, radius) ==
    IF ~IsPart(workplane) THEN [mesh |-> EmptyMesh, err |-> "AttributeError"]
    ELSE IF workplane.cells = Empty THEN [mesh |-> EmptyMesh, err |-> "none"]
    ELSE [mesh |-> Tessellate(workplane.cells, radius), err |-> "none"]

\* max([abs(vertex) for vertex in vertices]) of a non-empty list
MaxAbs(vertices) ==
    CHOOSE m \in { vertices[i].r : i \in DOMAIN vertices } :
        \A i \in DOMAIN vertices : vertices[i].r <= m

\* the tail of get_max_distance_from_origin, on the vertices
MaxDistanceOf(vertices) ==
    IF Len(vertices) = 0 THEN 0 ELSE MaxAbs(vertices)

Times(vertex, num, den) == [vertex EXCEPT !.r = (vertex.r * num) \div den]

scale_mesh(mesh_, scale_) ==
    LET vertices == mesh_[1]
        triangles == mesh_[2]
    IN  IF Len(vertices) = 0 THEN mesh_
        ELSE << [i \in DOMAIN vertices |-> Times(vertices[i], scale_.num, scale_.den)],
                triangles >>

\* without the guard max() is handed an empty list and raises ValueError
normalize_mesh_unguarded(mesh_) ==
    LET vertices == mesh_[1]
        triangles == mesh_[2]
    IN  IF Len(vertices) = 0
        THEN [mesh |-> mesh_, divisors |-> << >>, err |-> "ValueError"]
        ELSE LET largest == MaxAbs(vertices)
             IN  IF largest = 0
                 THEN [mesh |-> mesh_, divisors |-> <<0>>, err |-> "ZeroDivisionError"]
                 ELSE [mesh |-> << [i \in DOMAIN vertices |->
                                       Times(vertices[i], XUnit, largest)],
                                   triangles >>,
                       divisors |-> << largest >>, err |-> "none"]

normalize_mesh(mesh_) ==
    LET vertices == mesh_[1]
        triangles == mesh_[2]
    IN  IF Len(vertices) = 0
        THEN [mesh |-> mesh_, divisors |-> << >>, err |-> "none"]
        ELSE LET largest == MaxAbs(vertices)
             IN  IF largest = 0
                 THEN [mesh |-> mesh_, divisors |-> <<0>>, err |-> "ZeroDivisionError"]
                 ELSE [mesh |-> << [i \in DOMAIN vertices |->
                                       Times(vertices[i], XUnit, largest)],
                                   triangles >>,
                       divisors |-> << largest >>, err |-> "none"]

\* common.write_obj: a "v" line per vertex, then an "f" line per triangle
\* with its indices counted from 1
write_obj(vertices, triangles) ==
    [i \in DOMAIN vertices |-> [kind |-> "v", vertex |-> vertices[i], face |-> << >>]]
    \o [i \in DOMAIN triangles |->
           [kind |-> "f", vertex |-> << >>,
            face |-> [c \in 1 .. 3 |-> triangles[i][c] + 1]]]

write_mesh_as_obj(mesh_) == write_obj(mesh_[1], mesh_[2])

write_hull_as_obj(hull_3d) == write_obj(hull_3d.points, hull_3d.simplices)

NoFile == [exists |-> FALSE, lines |-> << >>]

\* open(out_file, "x") and what the with block writes
Written(lines) == [exists |-> TRUE, lines |-> lines]

OneScale == [num |-> 1, den |-> 1]

\* render_one_section_as_obj of hard_polytwister_section, up to the mesh
\* that is written
HardMesh(polytwister, w_, orc, req) ==
    LET Scaled(r, d, n) ==
            IF r.err # "none"
            THEN [mesh |-> EmptyMesh, divisors |-> << >>, err |-> r.err, run |-> r]
            ELSE IF d.err # "none"
            THEN [mesh |-> EmptyMesh, divisors |-> << >>, err |-> d.err, run |-> r]
            ELSE IF n.err # "none"
            THEN [mesh |-> d.mesh, divisors |-> n.divisors, err |-> n.err, run |-> r]
            ELSE [mesh |-> IF req.scale.num # req.scale.den
                           THEN scale_mesh(n.mesh, req.scale) ELSE n.mesh,
                  divisors |-> n.divisors, err |-> "none", run |-> r]
        Normalized(r, d) ==
            Scaled(r, d, IF req.normalize THEN normalize_mesh(d.mesh)
                         ELSE [mesh |-> d.mesh, divisors |-> << >>, err |-> "none"])
        Discretized(r) == Normalized(r, discretize_workplane(r.val, req.radius))
    IN  Discretized(realize(polytwister, w_, orc))

RenderTrees ==
    { Tetratwister, Quasitetratwister, intersection(CUBE_EQUATOR),
      difference(<<TETRAHEDRON_NORTH[1], SOUTH_POLE, CUBE_EQUATOR[2]>>),
      union(<<SOUTH_POLE, TETRAHEDRON_NORTH[1], CUBE_EQUATOR[2]>>),
      SOUTH_POLE, NORTH_POLE, union(<< >>), rotated_copies(NORTH_POLE, 2) }

Scales == { OneScale, [num |-> 2, den |-> 1], [num |-> 1, den |-> 2] }

Radii == { XUnit \div 2, 3 * XUnit }

\* existed: whether out_file was there before the call
HardRequests ==
    { [kind |-> "hard", normalize |-> n, scale |-> sc, radius |-> r, existed |-> e] :
        n \in BOOLEAN, sc \in Scales, r \in Radii, e \in BOOLEAN }

SoftRequests ==
    { [kind |-> "soft", normalize |-> FALSE, scale |-> OneScale, radius |-> 0,
       existed |-> e] : e \in BOOLEAN }

NoRequest ==
    [kind |-> "none", normalize |-> FALSE, scale |-> OneScale, radius |-> 0,
     existed |-> FALSE]

Unmeasured == 0 - 1

OldFile == Written(<< [kind |-> "f", vertex |-> << >>, face |-> <<1, 2, 3>>] >>)

(***************************************************************************)
(* Frames of an animation (hard slicer).  w is in Unit ticks; the products *)
(* are exact and the one division rounds to the nearest tick, ties to      *)
(* even, as a floating-point division rounds to the nearest value.  A file *)
(* stem is the sequence of its characters.                                 *)
(***************************************************************************)
RoundDiv(n, d) ==
    LET q == n \div d
        r == n % d
    IN  IF 2 * r > d THEN q + 1
        ELSE IF 2 * r = d THEN q + (q % 2)
        ELSE q

\* int(math.ceil(math.log10(n))) for n >= 1
RECURSIVE CeilLog10(_)
CeilLog10(n) == IF n <= 1 THEN 0 ELSE 1 + CeilLog10((n + 9) \div 10)

\* str(i) for i >= 0
RECURSIVE Str(_)
Str(i) == IF i < 10 THEN << Digit(i) >> ELSE Str(i \div 10) \o << Digit(i % 10) >>

\* s.rjust(width, "0")
RJust(str_, width) ==
    IF Len(str_) >= width THEN str_
    ELSE [k \in 1 .. (width - Len(str_)) |-> "0"] \o str_

W_out == <<"o", "u", "t", "_">>

FrameW_fromZero(i, num_frames, max_w) ==
    (0 - max_w) + RoundDiv((max_w * 2) * i, num_frames + 1)

\* w = -max_w + max_w * 2 * (i + 1) / (num_frames + 1)
FrameW(i, num_frames, max_w) ==
    (0 - max_w) + RoundDiv((max_w * 2) * (i + 1), num_frames + 1)

\* math.log10 raises ValueError for num_frames = 0
get_w_coordinates_and_file_names(num_frames, max_w) ==
    IF num_frames = 0 THEN [kind |-> "ValueError", result |-> << >>]
    ELSE LET num_digits == CeilLog10(num_frames)
         IN  [kind |-> "return",
              result |-> [k \in 1 .. num_frames |->
                             [frame_number |-> (k - 1) + 1,
                              w |-> FrameW(k - 1, num_frames, max_w),
                              file_stem |-> W_out \o RJust(Str(k - 1), num_digits)]]]

\* max_w as get_scale_and_max_w may return it
MaxWValues ==
    { Tolerance \div 2, (3 * Unit) \div 10, ((7 * Unit) \div 10) + 3, Unit,
      1234 * (Unit \div 1000), (42 * Unit) \div 10 }

NoFrames == [kind |-> "none", result |-> << >>]

(***************************************************************************)
(* render_animation (scripts/render_animation.py).  Lists are sequences;   *)
(* render_frame runs Blender as a subprocess, which either goes through or *)
(* raises CalledProcessError, at the call chosen in Init.                  *)
(***************************************************************************)
\* list(range(a, b))
Range(a, b) == [k \in 1 .. (b - a) |-> (a + k) - 1]

\* seq[0::2]
EveryOther(seq) == [k \in 1 .. ((Len(seq) + 1) \div 2) |-> seq[(2 * k) - 1]]

\* seq[1::2]
TheOthers(seq) == [k \in 1 .. (Len(seq) \div 2) |-> seq[2 * k]]

\* max(seq) of a non-empty list
MaxOf(seq) ==
    CHOOSE m \in { seq[k] : k \in DOMAIN seq } : \A k \in DOMAIN seq : seq[k] <= m

W_frame == <<"f", "r", "a", "m", "e">>
W_png == <<".", "p", "n", "g">>

\* frame_names[i]
FrameName(i, num_frames) ==
    W_frame \o RJust(Str(i), CeilLog10(num_frames)) \o W_png

\* w = (frame_index / max(frame_order) * 2 - 1) * max_w
AnimationW(frame_index, largest, max_w) ==
    RoundDiv(((2 * frame_index) - largest) * max_w, largest)

BlenderFailures == {0, 1, 3}

Animations ==
    [num_frames : 0 .. MaxFrames, max_w : MaxWValues, fail_at : BlenderFailures]

NoAnimation == [num_frames |-> 0, max_w |-> 0, fail_at |-> 0]

(***************************************************************************)
(* Drivers: batch main (core/batch.py) and pipeline main (pipeline.py).    *)
(* Of render_all_sections_as_objs the drivers see that the directory is    *)
(* made first and that the call returns or raises; a path is the name of   *)
(* the polytwister (batch) or the name of the file (pipeline).             *)
(***************************************************************************)
\* the keys of the dict built from a list, in insertion order
KeysInOrder(polytwisters_list) ==
    LET first == SelectSeq([i \in DOMAIN polytwisters_list |-> i],
                     LAMBDA i : \A j \in 1 .. (i - 1) :
                         polytwisters_list[j].names[1] # polytwisters_list[i].names[1])
    IN  [k \in DOMAIN first |-> polytwisters_list[first[k]].names[1]]

\* batch main: all_polytwisters, hard first and then soft
BatchCatalog ==
    Update(Update(<< >>, get_all_hard_polytwisters), get_all_soft_polytwisters)

\* all_polytwisters.items(), in the order of the dict
BatchOrder ==
    LET Then(hard, soft) ==
            hard \o SelectSeq(soft, LAMBDA k : \A i \in DOMAIN hard : hard[i] # k)
    IN  Then(KeysInOrder(HardList), KeysInOrder(SoftList))

\* Realizer.realize reads polytwister["tree"]
HardRealizerAccepts(polytwister) == "tree" \in DOMAIN polytwister

\* hard_polytwister_section.render_all_sections_as_objs: "return", or the
\* exception raised after out_dir.mkdir()
HardSections(polytwister, fails) ==
    IF ~HardRealizerAccepts(polytwister) THEN "KeyError"
    ELSE IF fails THEN "ValueError"
    ELSE "return"

\* soft_polytwister_section.render_all_sections_as_objs: the sections are
\* written, then common.write_metadata_file is looked up, which common.py
\* does not define
SoftSections(polytwister, fails) ==
    IF fails THEN "ValueError" ELSE "AttributeError"

NoManifest == [exists |-> FALSE, polytwister_names |-> << >>]

Dispatch(driver_, polytwister, realizer) ==
    [driver |-> driver_, name |-> polytwister.name, type |-> polytwister.type,
     realizer |-> realizer]

NamesAt(order, S) == { order[i] : i \in S }

\* the per-polytwister directories that exist before a run of batch main
ExistingDirectories ==
    LET Of(order, n) ==
            { NamesAt(order, 1 .. k) : k \in 0 .. n }
            \cup { NamesAt(order, k .. n) : k \in 1 .. n }
            \cup { NamesAt(order, (1 .. n) \ {k}) : k \in 1 .. n }
            \cup { NamesAt(order, (1 .. n) \ {k, k + 2}) : k \in 1 .. (n - 2) }
        In(order) == Of(order, Len(order))
    IN  In(BatchOrder)

\* the polytwister at which the realizer raises, if any
FailingNames ==
    LET Of(order) == { << >>, order[2], order[Len(order)] }
    IN  Of(BatchOrder)

BatchRuns ==
    [existing : ExistingDirectories, failing : FailingNames, n : {50}]

PipelineFiles ==
    {"sections", "animation.blend", "render_frames", "animation.mp4", "animation.gif"}

PipelineNames ==
    AllNames \cup { Underscored(n, SpacePositions(n)) : n \in AllNames }
    \cup { W_twister }

PipelineRuns ==
    [polytwister : PipelineNames,
     existing : { {}, {"sections"}, PipelineFiles \ {"animation.gif"} },
     failing : BOOLEAN,
     n : {50, 10001}]

NoRun == [existing |-> {}, failing |-> << >>, n |-> 0]

(***************************************************************************)
(* State machine.                                                          *)
(***************************************************************************)
RealizerIdle ==
    /\ tree = NORTH_POLE
    /\ w = 0
    /\ kernel = [failAt |-> 0, failKind |-> "ValueError", emptyArg |-> "ok"]
    /\ result = [val |-> None, err |-> "none"]
    /\ klog = << >>
    /\ elog = << >>

NormalizerIdle ==
    /\ scale = NoScale
    /\ max_w_lower_bound = 0
    /\ max_w_upper_bound = 0
    /\ queries = << >>
    /\ grid = 0
    /\ ret = NoReturn

LookupIdle ==
    /\ name = << >>
    /\ found = [kind |-> "none", spec |-> NotFound]

CallsIdle ==
    /\ calls = << >>
    /\ returns = << >>

SoftIdle ==
    /\ soft_polytwister_spec = SoftSpec(FALSE, << >>)
    /\ soft_w = 0
    /\ qhull = {}
    /\ cross_section = NoSection
    /\ edges = << >>

RenderIdle ==
    /\ request = NoRequest
    /\ mesh = EmptyMesh
    /\ divisors = << >>
    /\ max_distance = Unmeasured
    /\ out_file = NoFile
    /\ raised = "none"

FramesIdle ==
    /\ frame_args = [num_frames |-> 0, max_w |-> 0]
    /\ frames = NoFrames

AnimationIdle ==
    /\ animation = NoAnimation
    /\ remaining_frames = << >>
    /\ frame_order = << >>
    /\ rendered = << >>

DriversIdle ==
    /\ driver = NoRun
    /\ position = 0
    /\ polytwister_names = << >>
    /\ outputs = {}
    /\ manifest = NoManifest
    /\ dispatched = << >>

InitRealize ==
    /\ message = << >>
    /\ op = "realize"
    /\ pc = "start"
    /\ tree \in Trees
    /\ w \in WValues
    /\ kernel \in { k \in Kernels : k.failAt = 0 => k.failKind = "ValueError" }
    /\ result = [val |-> None, err |-> "none"]
    /\ klog = << >>
    /\ elog = << >>
    /\ profile = EmptyProfile
    /\ NormalizerIdle
    /\ LookupIdle
    /\ SoftIdle
    /\ CallsIdle
    /\ RenderIdle
    /\ FramesIdle
    /\ AnimationIdle
    /\ DriversIdle

InitNormalize ==
    /\ message = << >>
    /\ op = "normalize"
    /\ pc = "n_start"
    /\ profile \in Profiles
    /\ NormalizerIdle
    /\ RealizerIdle
    /\ LookupIdle
    /\ SoftIdle
    /\ CallsIdle
    /\ RenderIdle
    /\ FramesIdle
    /\ AnimationIdle
    /\ DriversIdle

InitLookup ==
    /\ message = << >>
    /\ op = "lookup"
    /\ pc = "l_start"
    /\ name \in LookupNames
    /\ found = [kind |-> "none", spec |-> NotFound]
    /\ profile = EmptyProfile
    /\ NormalizerIdle
    /\ RealizerIdle
    /\ SoftIdle
    /\ CallsIdle
    /\ RenderIdle
    /\ FramesIdle
    /\ AnimationIdle
    /\ DriversIdle

InitSlice ==
    /\ message = << >>
    /\ op = "slice"
    /\ pc = "s_start"
    /\ soft_polytwister_spec \in SoftSpecs
    /\ soft_w \in SoftWValues
    /\ qhull \in SUBSET (1 .. Len(soft_polytwister_spec.hulls))
    /\ cross_section = NoSection
    /\ edges = << >>
    /\ profile = EmptyProfile
    /\ CallsIdle
    /\ NormalizerIdle
    /\ RealizerIdle
    /\ LookupIdle
    /\ RenderIdle
    /\ FramesIdle
    /\ AnimationIdle
    /\ DriversIdle

\* Independent callers of make_polytwister_cross_section on one polytwister,
\* each with its own w; every caller's frame holds the Realizer it creates.
NewCall(w_) ==
    [w |-> w_, pc |-> "called", self_w |-> 0,
     ret |-> [val |-> None, err |-> "none"]]

ConcurrentTrees ==
    { Tetratwister, Quasitetratwister, intersection(CUBE_EQUATOR),
      difference(<<TETRAHEDRON_NORTH[1], SOUTH_POLE, CUBE_EQUATOR[2]>>),
      union(<<SOUTH_POLE, TETRAHEDRON_NORTH[1], CUBE_EQUATOR[2]>>),
      rotated_copies(intersection(<<CUBE_EQUATOR[1], CUBE_EQUATOR[2]>>), 4),
      SOUTH_POLE, [type |-> "hull"] }

ConcurrentWValues == { 0 - Unit, 0 - (Unit \div 2), 0, Unit \div 2 }

InitConcurrent ==
    /\ message = << >>
    /\ op = "concurrent"
    /\ pc = "c_run"
    /\ tree \in ConcurrentTrees
    /\ w = 0
    /\ kernel \in { k \in Kernels : k.failAt <= 1 /\ k.failKind = "ValueError"
                                    /\ k.emptyArg # "OtherError" }
    /\ result = [val |-> None, err |-> "none"]
    /\ klog = << >>
    /\ elog = << >>
    /\ calls \in { [q \in 1 .. MaxQueries |-> NewCall(ws[q])] :
                     ws \in [1 .. MaxQueries -> ConcurrentWValues] }
    /\ returns = << >>
    /\ profile = EmptyProfile
    /\ NormalizerIdle
    /\ LookupIdle
    /\ SoftIdle
    /\ RenderIdle
    /\ FramesIdle
    /\ AnimationIdle
    /\ DriversIdle

\* render_one_section_as_obj, of the hard and of the soft slicer
InitRender ==
    /\ message = << >>
    /\ op = "render"
    /\ pc = "r_start"
    /\ profile = EmptyProfile
    /\ \/ /\ request \in HardRequests
          /\ tree \in RenderTrees
          /\ w \in WValues
          /\ kernel = [failAt |-> 0, failKind |-> "ValueError", emptyArg |-> "ok"]
          /\ result = [val |-> None, err |-> "none"]
          /\ klog = << >>
          /\ elog = << >>
          /\ SoftIdle
       \/ /\ request \in SoftRequests
          /\ soft_polytwister_spec \in SoftSpecs
          /\ soft_w \in SoftWValues
          /\ qhull \in SUBSET (1 .. Len(soft_polytwister_spec.hulls))
          /\ cross_section = NoSection
          /\ edges = << >>
          /\ RealizerIdle
    /\ mesh = EmptyMesh
    /\ divisors = << >>
    /\ max_distance = Unmeasured
    /\ out_file = IF request.existed THEN OldFile ELSE NoFile
    /\ raised = "none"
    /\ NormalizerIdle
    /\ LookupIdle
    /\ CallsIdle
    /\ FramesIdle
    /\ AnimationIdle
    /\ DriversIdle

\* get_w_coordinates_and_file_names(polytwister, num_frames, max_w)
InitFrames ==
    /\ message = << >>
    /\ op = "frames"
    /\ pc = "f_start"
    /\ profile = EmptyProfile
    /\ frame_args \in [num_frames : 0 .. MaxFrames, max_w : MaxWValues]
    /\ frames = NoFrames
    /\ RealizerIdle
    /\ NormalizerIdle
    /\ LookupIdle
    /\ SoftIdle
    /\ CallsIdle
    /\ RenderIdle
    /\ AnimationIdle
    /\ DriversIdle

\* render_animation(polytwister, max_w, num_frames)
InitAnimation ==
    /\ message = << >>
    /\ op = "animate"
    /\ pc = "a_start"
    /\ profile = EmptyProfile
    /\ animation \in Animations
    /\ remaining_frames = << >>
    /\ frame_order = << >>
    /\ rendered = << >>
    /\ RealizerIdle
    /\ NormalizerIdle
    /\ LookupIdle
    /\ SoftIdle
    /\ CallsIdle
    /\ RenderIdle
    /\ FramesIdle
    /\ DriversIdle

\* batch main, at `polytwister_names = []`
InitBatch ==
    /\ message = << >>
    /\ op = "batch"
    /\ pc = "b_loop"
    /\ profile = EmptyProfile
    /\ driver \in BatchRuns
    /\ position = 1
    /\ polytwister_names = << >>
    /\ outputs = driver.existing
    /\ manifest = NoManifest
    /\ dispatched = << >>
    /\ RealizerIdle
    /\ NormalizerIdle
    /\ LookupIdle
    /\ SoftIdle
    /\ CallsIdle
    /\ RenderIdle
    /\ FramesIdle
    /\ AnimationIdle

\* pipeline main, after the arguments are parsed
InitPipeline ==
    /\ message = << >>
    /\ op = "pipeline"
    /\ pc = "p_start"
    /\ profile = EmptyProfile
    /\ driver \in PipelineRuns
    /\ position = 0
    /\ polytwister_names = << >>
    /\ outputs = driver.existing
    /\ manifest = NoManifest
    /\ dispatched = << >>
    /\ RealizerIdle
    /\ NormalizerIdle
    /\ LookupIdle
    /\ SoftIdle
    /\ CallsIdle
    /\ RenderIdle
    /\ FramesIdle
    /\ AnimationIdle

Init ==
    \/ InitRealize
    \/ InitNormalize
    \/ InitLookup
    \/ InitSlice
    \/ InitConcurrent
    \/ InitRender
    \/ InitFrames
    \/ InitAnimation
    \/ InitBatch
    \/ InitPipeline

\* make_polytwister_cross_section(polytwister, w)
Realize ==
    /\ op = "realize"
    /\ pc = "start"
    /\ \E r \in {realize(tree, w, kernel)} :
           /\ result' = [val |-> r.val, err |-> r.err]
           /\ klog' = r.klog
           /\ elog' = r.elog
           /\ message' = r.msg
           /\ pc' = IF r.err = "none" THEN "done" ELSE "raised"
    /\ UNCHANGED <<op, tree, w, kernel, profile, normalizerVars, lookupVars,
                   softVars, callVars, renderVars, frameVars, animationVars, driverVars>>

NormStart_noCheck ==
    /\ op = "normalize"
    /\ pc = "n_start"
    /\ LET max_distance_from_origin_zero == get_max_distance_from_origin(profile, 0)
       IN  /\ queries' = Append(queries, 0)
           /\ scale' = ScaleOf(max_distance_from_origin_zero)
           /\ max_w_lower_bound' = 0
           /\ max_w_upper_bound' = max_distance_from_origin_zero * 2
           /\ pc' = "n_grid"
           /\ UNCHANGED <<ret, message>>
    /\ UNCHANGED <<op, profile, grid, realizerVars, lookupVars,
                   softVars, callVars, renderVars, frameVars, animationVars, driverVars>>

\* get_scale_and_max_w, up to the grid search: D(0), the emptiness check,
\* scale and the initial bounds.
NormStart ==
    /\ op = "normalize"
    /\ pc = "n_start"
    /\ LET max_distance_from_origin_zero == get_max_distance_from_origin(profile, 0)
       IN  /\ queries' = Append(queries, 0)
           /\ IF max_distance_from_origin_zero = 0
              THEN /\ pc' = "n_raised"
                   /\ ret' = [NoReturn EXCEPT !.kind = "ValueError"]
                   /\ message' = EmptyBaseMessage
                   /\ UNCHANGED <<scale, max_w_lower_bound, max_w_upper_bound>>
              ELSE /\ scale' = ScaleOf(max_distance_from_origin_zero)
                   /\ max_w_lower_bound' = 0
                   /\ max_w_upper_bound' = max_distance_from_origin_zero * 2
                   /\ pc' = "n_grid"
                   /\ UNCHANGED <<ret, message>>
    /\ UNCHANGED <<op, profile, grid, realizerVars, lookupVars,
                   softVars, callVars, renderVars, frameVars, animationVars, driverVars>>

GridSearch_neverBreaks ==
    /\ op = "normalize"
    /\ pc = "n_grid"
    /\ grid < MaxGrid
    /\ max_w_upper_bound' = max_w_upper_bound + GridStep
    /\ grid' = grid + 1
    /\ queries' = Append(queries, max_w_upper_bound)
    /\ UNCHANGED <<op, message, pc, profile, scale, max_w_lower_bound, ret, realizerVars, lookupVars,
                   softVars, callVars, renderVars, frameVars, animationVars, driverVars>>

\* One iteration of the grid search `while True`, whose exit is the break.
\* The search has no iteration cap; the model follows MaxGrid +1 steps.
GridSearch ==
    /\ op = "normalize"
    /\ pc = "n_grid"
    /\ LET max_distance_from_origin ==
               get_max_distance_from_origin(profile, max_w_upper_bound)
       IN  IF max_distance_from_origin = 0
           THEN /\ pc' = "n_bisect"
                /\ queries' = Append(queries, max_w_upper_bound)
                /\ UNCHANGED <<max_w_upper_bound, grid>>
           ELSE /\ grid < MaxGrid
                /\ max_w_upper_bound' = max_w_upper_bound + GridStep
                /\ grid' = grid + 1
                /\ queries' = Append(queries, max_w_upper_bound)
                /\ UNCHANGED pc
    /\ UNCHANGED <<op, message, profile, scale, max_w_lower_bound, ret, realizerVars, lookupVars,
                   softVars, callVars, renderVars, frameVars, animationVars, driverVars>>

Bisect_swapped ==
    /\ op = "normalize"
    /\ pc = "n_bisect"
    /\ max_w_upper_bound - max_w_lower_bound > Tolerance
    /\ LET max_w == Midpoint(max_w_lower_bound, max_w_upper_bound)
           distance == get_max_distance_from_origin(profile, max_w)
       IN  /\ queries' = Append(queries, max_w)
           /\ IF distance > 0
              THEN max_w_upper_bound' = max_w /\ UNCHANGED max_w_lower_bound
              ELSE max_w_lower_bound' = max_w /\ UNCHANGED max_w_upper_bound
    /\ UNCHANGED <<op, message, pc, profile, scale, grid, ret, realizerVars, lookupVars,
                   softVars, callVars, renderVars, frameVars, animationVars, driverVars>>

\* One iteration of the bisection loop.
Bisect ==
    /\ op = "normalize"
    /\ pc = "n_bisect"
    /\ max_w_upper_bound - max_w_lower_bound > Tolerance
    /\ LET max_w == Midpoint(max_w_lower_bound, max_w_upper_bound)
           distance == get_max_distance_from_origin(profile, max_w)
       IN  /\ queries' = Append(queries, max_w)
           /\ IF distance > 0
              THEN max_w_lower_bound' = max_w /\ UNCHANGED max_w_upper_bound
              ELSE max_w_upper_bound' = max_w /\ UNCHANGED max_w_lower_bound
    /\ UNCHANGED <<op, message, pc, profile, scale, grid, ret, realizerVars, lookupVars,
                   softVars, callVars, renderVars, frameVars, animationVars, driverVars>>

NormReturn_lowerBound ==
    /\ op = "normalize"
    /\ pc = "n_bisect"
    /\ ~(max_w_upper_bound - max_w_lower_bound > Tolerance)
    /\ ret' = [kind |-> "return", scale |-> scale, max_w |-> max_w_lower_bound]
    /\ pc' = "n_done"
    /\ UNCHANGED <<op, message, profile, scale, max_w_lower_bound, max_w_upper_bound,
                   queries, grid, realizerVars, lookupVars,
                   softVars, callVars, renderVars, frameVars, animationVars, driverVars>>

\* Exit of the bisection loop: return scale, max_w_upper_bound.
NormReturn ==
    /\ op = "normalize"
    /\ pc = "n_bisect"
    /\ ~(max_w_upper_bound - max_w_lower_bound > Tolerance)
    /\ ret' = [kind |-> "return", scale |-> scale, max_w |-> max_w_upper_bound]
    /\ pc' = "n_done"
    /\ UNCHANGED <<op, message, profile, scale, max_w_lower_bound, max_w_upper_bound,
                   queries, grid, realizerVars, lookupVars,
                   softVars, callVars, renderVars, frameVars, animationVars, driverVars>>

\* all_polytwisters.get_polytwister(name)
Lookup ==
    /\ op = "lookup"
    /\ pc = "l_start"
    /\ found' = get_polytwister(name)
    /\ pc' = IF found'.kind = "return" THEN "l_done" ELSE "l_raised"
    /\ UNCHANGED <<op, message, name, profile, realizerVars, normalizerVars,
                   softVars, callVars, renderVars, frameVars, animationVars, driverVars>>

\* get_soft_polytwister_cross_section(soft_polytwister_spec, w)
SoftSection ==
    /\ op = "slice"
    /\ pc = "s_start"
    /\ \E r \in {get_soft_polytwister_cross_section(soft_polytwister_spec, soft_w, qhull)} :
           /\ cross_section' = r.ret
           /\ edges' = r.logs
           /\ pc' = IF r.err = "none" THEN "s_done" ELSE "s_raised"
    /\ UNCHANGED <<op, message, profile, soft_polytwister_spec, soft_w, qhull,
                   realizerVars, normalizerVars, lookupVars, callVars, renderVars, frameVars, animationVars, driverVars>>

NewRealizer_sharedW ==
    /\ op = "concurrent"
    /\ \E q \in DOMAIN calls :
           /\ calls[q].pc = "called"
           /\ calls' = [r \in DOMAIN calls |->
                            IF r = q
                            THEN [calls[r] EXCEPT !.self_w = RealizerW(calls[q].w),
                                                  !.pc = "constructed"]
                            ELSE [calls[r] EXCEPT !.self_w = RealizerW(calls[q].w)]]
    /\ UNCHANGED <<op, pc, message, profile, returns, realizerVars,
                   normalizerVars, lookupVars, softVars,
                   renderVars, frameVars, animationVars, driverVars>>

\* Realizer(w) in one call of make_polytwister_cross_section: __init__
\* stores w in the new instance.
NewRealizer ==
    /\ op = "concurrent"
    /\ \E q \in DOMAIN calls :
           /\ calls[q].pc = "called"
           /\ calls' = [calls EXCEPT ![q].self_w = RealizerW(calls[q].w),
                                     ![q].pc = "constructed"]
    /\ UNCHANGED <<op, pc, message, profile, returns, realizerVars,
                   normalizerVars, lookupVars, softVars,
                   renderVars, frameVars, animationVars, driverVars>>

\* .realize(polytwister) on the instance of one call: traverse reads the
\* tree and the instance's w.
RealizeCall ==
    /\ op = "concurrent"
    /\ \E q \in DOMAIN calls :
           /\ calls[q].pc = "constructed"
           /\ LET r == traverse(tree, calls[q].self_w, kernel, StartState)
              IN  calls' = [calls EXCEPT ![q].ret = [val |-> r.val, err |-> r.err],
                                        ![q].pc = "returned"]
    /\ UNCHANGED <<op, pc, message, profile, returns, realizerVars,
                   normalizerVars, lookupVars, softVars,
                   renderVars, frameVars, animationVars, driverVars>>

\* A further call get_scale_and_max_w(polytwister) after one has returned:
\* a new frame, whose names are all unbound.
CallAgain ==
    /\ op = "normalize"
    /\ pc = "n_done"
    /\ Len(returns) + 1 < MaxCalls
    /\ returns' = Append(returns, ret)
    /\ pc' = "n_start"
    /\ scale' = NoScale
    /\ max_w_lower_bound' = 0
    /\ max_w_upper_bound' = 0
    /\ queries' = << >>
    /\ grid' = 0
    /\ ret' = NoReturn
    /\ UNCHANGED <<op, message, profile, calls, realizerVars, lookupVars, softVars,
                   renderVars, frameVars, animationVars, driverVars>>

\* get_max_distance_from_origin(polytwister, w)
MeasureSection ==
    /\ op = "render"
    /\ pc = "r_start"
    /\ request.kind = "hard"
    /\ \E r \in {realize(tree, w, kernel)} :
       \E d \in {discretize_workplane(r.val, request.radius)} :
       LET err == IF r.err # "none" THEN r.err ELSE d.err
       IN  /\ result' = [val |-> r.val, err |-> r.err]
           /\ klog' = r.klog
           /\ elog' = r.elog
           /\ message' = r.msg
           /\ raised' = err
           /\ max_distance' =
                  IF err = "none" THEN MaxDistanceOf(d.mesh[1]) ELSE max_distance
           /\ pc' = IF err = "none" THEN "r_measured" ELSE "r_raised"
    /\ UNCHANGED <<op, tree, w, kernel, profile, normalizerVars, lookupVars,
                   softVars, callVars, request, mesh, divisors, out_file,
                   frameVars, animationVars, driverVars>>

\* hard_polytwister_section.render_one_section_as_obj
HardRender ==
    /\ op = "render"
    /\ pc \in {"r_start", "r_measured"}
    /\ request.kind = "hard"
    /\ \E h \in {HardMesh(tree, w, kernel, request)} :
       LET err == IF h.err # "none" THEN h.err
                  ELSE IF out_file.exists THEN "FileExistsError" ELSE "none"
       IN  /\ result' = [val |-> h.run.val, err |-> h.run.err]
           /\ klog' = h.run.klog
           /\ elog' = h.run.elog
           /\ message' = h.run.msg
           /\ mesh' = h.mesh
           /\ divisors' = h.divisors
           /\ raised' = err
           /\ out_file' =
                  IF err = "none" THEN Written(write_mesh_as_obj(h.mesh)) ELSE out_file
           /\ pc' = IF err = "none" THEN "r_done" ELSE "r_raised"
    /\ UNCHANGED <<op, tree, w, kernel, profile, normalizerVars, lookupVars,
                   softVars, callVars, request, max_distance,
                   frameVars, animationVars, driverVars>>

\* soft_polytwister_section.render_one_section_as_obj
SoftRender ==
    /\ op = "render"
    /\ pc = "r_start"
    /\ request.kind = "soft"
    /\ \E c \in {get_soft_polytwister_cross_section(soft_polytwister_spec, soft_w, qhull)} :
       LET err == IF c.err # "none" THEN c.err
                  ELSE IF out_file.exists THEN "FileExistsError" ELSE "none"
       IN  /\ cross_section' = c.ret
           /\ edges' = c.logs
           /\ raised' = err
           /\ out_file' =
                  IF err # "none" THEN out_file
                  ELSE IF c.ret.kind # "none" THEN Written(write_hull_as_obj(c.ret))
                  ELSE Written(<< >>)
           /\ pc' = IF err = "none" THEN "r_done" ELSE "r_raised"
    /\ UNCHANGED <<op, message, profile, soft_polytwister_spec, soft_w, qhull,
                   realizerVars, normalizerVars, lookupVars, callVars, request,
                   mesh, divisors, max_distance,
                   frameVars, animationVars, driverVars>>

FrameList ==
    /\ op = "frames"
    /\ pc = "f_start"
    /\ frames' = get_w_coordinates_and_file_names(frame_args.num_frames,
                                                   frame_args.max_w)
    /\ pc' = IF frames'.kind = "return" THEN "f_done" ELSE "f_raised"
    /\ UNCHANGED <<op, message, profile, frame_args, realizerVars, normalizerVars,
                   lookupVars, softVars, callVars, renderVars,
                   animationVars, driverVars>>

\* remaining_frames = list(range(1, num_frames - 1)); frame_order = []
AnimationStart ==
    /\ op = "animate"
    /\ pc = "a_start"
    /\ remaining_frames' = Range(1, animation.num_frames - 1)
    /\ frame_order' = << >>
    /\ pc' = "a_cross"
    /\ UNCHANGED <<op, message, profile, animation, rendered, realizerVars,
                   normalizerVars, lookupVars, softVars, callVars, renderVars,
                   frameVars,
                   driverVars>>

\* one iteration of `while len(remaining_frames) >= 2`
CrossOff ==
    /\ op = "animate"
    /\ pc = "a_cross"
    /\ Len(remaining_frames) >= 2
    /\ frame_order' = EveryOther(remaining_frames) \o frame_order
    /\ remaining_frames' = TheOthers(remaining_frames)
    /\ UNCHANGED <<op, pc, message, profile, animation, rendered, realizerVars,
                   normalizerVars, lookupVars, softVars, callVars, renderVars,
                   frameVars,
                   driverVars>>

OrderDone_noExtend ==
    /\ op = "animate"
    /\ pc = "a_cross"
    /\ Len(remaining_frames) < 2
    /\ frame_order' = <<0, animation.num_frames - 1>> \o frame_order
    /\ pc' = IF animation.num_frames = 0 THEN "a_raised" ELSE "a_render"
    /\ message' = IF animation.num_frames = 0 THEN << Literal("ValueError") >>
                  ELSE message
    /\ UNCHANGED <<op, profile, animation, remaining_frames, rendered,
                   realizerVars, normalizerVars, lookupVars, softVars, callVars,
                   renderVars, frameVars,
                   driverVars>>

\* the exit of the loop: extend, prepend the first and the last frame, and
\* the frame names (math.log10 raises ValueError for num_frames = 0)
OrderDone ==
    /\ op = "animate"
    /\ pc = "a_cross"
    /\ Len(remaining_frames) < 2
    /\ frame_order' =
           <<0, animation.num_frames - 1>> \o (frame_order \o remaining_frames)
    /\ pc' = IF animation.num_frames = 0 THEN "a_raised" ELSE "a_render"
    /\ message' = IF animation.num_frames = 0 THEN << Literal("ValueError") >>
                  ELSE message
    /\ UNCHANGED <<op, profile, animation, remaining_frames, rendered,
                   realizerVars, normalizerVars, lookupVars, softVars, callVars,
                   renderVars, frameVars,
                   driverVars>>

\* one iteration of `for frame_index in frame_order`
RenderFrame ==
    /\ op = "animate"
    /\ pc = "a_render"
    /\ Len(rendered) < Len(frame_order)
    /\ LET frame_index == frame_order[Len(rendered) + 1]
           largest == MaxOf(frame_order)
           err == IF largest = 0 THEN "ZeroDivisionError"
                  ELSE IF animation.fail_at = Len(rendered) + 1
                  THEN "CalledProcessError" ELSE "none"
       IN  /\ rendered' =
                  IF err # "none" THEN rendered
                  ELSE Append(rendered,
                           [frame_index |-> frame_index,
                            w |-> AnimationW(frame_index, largest, animation.max_w),
                            file_name |-> FrameName(frame_index, animation.num_frames)])
           /\ pc' = IF err # "none" THEN "a_raised" ELSE pc
           /\ message' = IF err # "none" THEN << Literal(err) >> ELSE message
    /\ UNCHANGED <<op, profile, animation, remaining_frames, frame_order,
                   realizerVars, normalizerVars, lookupVars, softVars, callVars,
                   renderVars, frameVars,
                   driverVars>>

\* the for loop is through
AnimationDone ==
    /\ op = "animate"
    /\ pc = "a_render"
    /\ Len(rendered) = Len(frame_order)
    /\ pc' = "a_done"
    /\ UNCHANGED <<op, message, profile, animationVars, realizerVars,
                   normalizerVars, lookupVars, softVars, callVars, renderVars,
                   frameVars, driverVars>>

\* batch main: one iteration of `for name, polytwister in ...items()`
BatchStep ==
    /\ op = "batch"
    /\ pc = "b_loop"
    /\ \E order \in {BatchOrder} :
       /\ position <= Len(order)
       /\ \E name_ \in {order[position]} : \E polytwister \in {BatchCatalog[name_]} :
           LET type_ == polytwister.type
               fails == driver.failing = name_
           IN
           IF name_ \in outputs
           THEN /\ polytwister_names' = Append(polytwister_names, name_)
                /\ position' = position + 1
                /\ UNCHANGED <<pc, message, outputs, manifest, dispatched>>
           ELSE LET realizer == IF type_ = "soft" THEN "soft" ELSE "hard"
                    outcome == IF type_ = "soft"
                               THEN SoftSections(polytwister, fails)
                               ELSE HardSections(polytwister, fails)
                IN  /\ dispatched' =
                           Append(dispatched, Dispatch("batch", polytwister, realizer))
                    /\ outputs' = outputs \cup {name_}
                    /\ IF outcome = "return"
                       THEN /\ polytwister_names' = Append(polytwister_names, name_)
                            /\ manifest' =
                                   [exists |-> TRUE,
                                    polytwister_names |-> polytwister_names']
                            /\ position' = position + 1
                            /\ UNCHANGED <<pc, message>>
                       ELSE /\ pc' = "b_raised"
                            /\ message' = << Literal(outcome) >>
                            /\ UNCHANGED <<polytwister_names, manifest, position>>
    /\ UNCHANGED <<op, profile, driver, realizerVars, normalizerVars, lookupVars,
                   softVars, callVars, renderVars, frameVars, animationVars>>

\* batch main: the for loop is through
BatchDone ==
    /\ op = "batch"
    /\ pc = "b_loop"
    /\ position > Len(BatchOrder)
    /\ pc' = "b_done"
    /\ UNCHANGED <<op, message, profile, driverVars, realizerVars, normalizerVars,
                   lookupVars, softVars, callVars, renderVars, frameVars,
                   animationVars>>

\* pipeline main, from the lookup to the sections
PipelineSections ==
    /\ op = "pipeline"
    /\ pc = "p_start"
    /\ \E got \in {get_polytwister(normalize_polytwister_name(driver.polytwister))} :
       LET polytwister == got.spec
           outcome == IF got.kind # "return" THEN got.kind
                      ELSE IF driver.n > 10000 THEN "ValueError"
                      ELSE IF "sections" \in outputs THEN "return"
                      ELSE HardSections(polytwister, driver.failing)
           called == got.kind = "return" /\ driver.n <= 10000
                         /\ "sections" \notin outputs
       IN  /\ dispatched' =
                  IF called
                  THEN Append(dispatched, Dispatch("pipeline", polytwister, "hard"))
                  ELSE dispatched
           /\ outputs' = IF called THEN outputs \cup {"sections"} ELSE outputs
           /\ pc' = IF outcome = "return" THEN "p_sections" ELSE "p_raised"
           /\ message' = IF outcome = "return" THEN message
                         ELSE << Literal(outcome) >>
    /\ UNCHANGED <<op, profile, driver, position, polytwister_names, manifest,
                   realizerVars, normalizerVars, lookupVars, softVars, callVars,
                   renderVars, frameVars, animationVars>>

\* pipeline main, the Blender steps: each output that is missing is made
PipelineRest ==
    /\ op = "pipeline"
    /\ pc = "p_sections"
    /\ outputs' = PipelineFiles
    /\ pc' = "p_done"
    /\ UNCHANGED <<op, message, profile, driver, position, polytwister_names,
                   manifest, dispatched, realizerVars, normalizerVars, lookupVars,
                   softVars, callVars, renderVars, frameVars, animationVars>>

Animate == AnimationStart \/ CrossOff \/ OrderDone \/ RenderFrame \/ AnimationDone

Normalize == NormStart \/ GridSearch \/ Bisect \/ NormReturn

Next ==
    \/ Realize \/ NormStart \/ GridSearch \/ Bisect \/ NormReturn \/ Lookup
    \/ SoftSection
    \/ NewRealizer \/ RealizeCall \/ CallAgain
    \/ MeasureSection \/ HardRender \/ SoftRender
    \/ FrameList
    \/ AnimationStart \/ CrossOff \/ OrderDone \/ RenderFrame \/ AnimationDone
    \/ BatchStep \/ BatchDone \/ PipelineSections \/ PipelineRest

Spec == Init /\ [][Next]_vars

\* get_scale_and_max_w is straight-line sequential code: a loop iteration
\* that can be taken is taken.
\* render_animation is sequential code as well: each loop iteration that
\* can be taken is taken, up to the call that raises.
LiveSpec == Spec /\ WF_vars(Normalize) /\ WF_vars(Animate)

(***************************************************************************)
(* Properties of the hard realizer.                                        *)
(***************************************************************************)
Realized == op = "realize" /\ pc # "start"

IsLeaf(node) == node.type = "cycloplane"

LeafValue(node) == create_cycloplane(RealizerW(w), node.zenith, node.azimuth)

TwoLeafNode ==
    /\ tree.type \in BoolTypes
    /\ Len(tree.operands) = 2
    /\ IsLeaf(tree.operands[1])
    /\ IsLeaf(tree.operands[2])

Returned(val) == result = [val |-> val, err |-> "none"]

\* C1: a Difference / Intersection / Union node folded over two operands of
\* which one is the empty solid and the other a non-empty solid A returns
\* Difference(A, Empty) = A, Intersection(Empty, A) = Empty and
\* Union(Empty, A) = A.
C1_EmptyOperandAlgebra ==
    (Realized /\ TwoLeafNode) =>
        LET a == LeafValue(tree.operands[1])
            b == LeafValue(tree.operands[2])
        IN  /\ (tree.type = "difference" /\ a # Empty /\ b = Empty)
                   => Returned(Part(a))
            /\ (tree.type = "intersection" /\ a = Empty /\ b # Empty)
                   => Returned(Part(Empty))
            /\ (tree.type = "union" /\ a = Empty /\ b # Empty)
                   => Returned(Part(b))

C1_Witness ==
    /\ Realized /\ TwoLeafNode
    /\ tree.type = "intersection"
    /\ LeafValue(tree.operands[1]) = Empty
    /\ LeafValue(tree.operands[2]) # Empty
    /\ Returned(Part(Empty))

KernelCalls == 1 .. Len(klog)

HasEmptyOperand(entry) == IsEmptyPart(entry.a) \/ IsEmptyPart(entry.b)

FailedCalls ==
    { i \in KernelCalls :
        /\ klog[i].outcome # "ok"
        /\ IsPart(klog[i].a) /\ IsPart(klog[i].b)
        /\ ~HasEmptyOperand(klog[i]) }

FlatOperand(node) ==
    \/ IsLeaf(node)
    \/ node.type = "rotated_copies" /\ IsLeaf(node.operand)

FlatNode ==
    /\ tree.type \in BoolTypes
    /\ \A j \in 1 .. Len(tree.operands) : FlatOperand(tree.operands[j])

\* C3: a kernel failure on non-empty operands while folding a Union or a
\* Difference node is not caught: it ends the evaluation and reaches the
\* caller of realize; a failure is turned into the empty solid only while
\* folding an Intersection node (there a ValueError never reaches the
\* caller, and the node's result is the empty solid).
C3_FailureOnlyCaughtInIntersection ==
    Realized =>
        \A i \in FailedCalls :
            /\ klog[i].op \in {"cut", "union"}
                   => /\ pc = "raised"
                      /\ result = [val |-> None, err |-> klog[i].outcome]
                      /\ i = Len(klog)
            /\ pc = "done" => klog[i].op = "intersect"
            /\ (klog[i].op = "intersect" /\ klog[i].outcome = "ValueError")
                   => /\ result.err # "ValueError"
                      /\ (FlatNode /\ tree.type = "intersection")
                             => Returned(Part(Empty))

C3_Witness ==
    /\ Realized /\ pc = "done"
    /\ FlatNode /\ tree.type = "intersection"
    /\ \E i \in FailedCalls : klog[i].outcome = "ValueError"
    /\ Returned(Part(Empty))

\* A run in which no kernel call on non-empty operands failed.
NoKernelFailure == FailedCalls = {}

NoFail == [kernel EXCEPT !.failAt = 0]

\* The value of child j of the root when evaluated on its own.
ChildResult(j) == realize(tree.operands[j], w, NoFail)

ChildrenEvaluate ==
    \A j \in 1 .. Len(tree.operands) :
        ChildResult(j).err = "none" /\ ChildResult(j).val.kind # "none"

RECURSIVE Flattened(_)
Flattened(j) ==
    \* concatenation, in child order, of the flattened results of children 1..j
    IF j = 0 THEN << >>
    ELSE Flattened(j - 1) \o bubble(ChildResult(j).val)

IsRotatedUnion ==
    /\ tree.type = "union"
    /\ Len(tree.operands) >= 1
    /\ \A j \in 1 .. Len(tree.operands) :
           /\ tree.operands[j].type = "rotated_copies"
           /\ tree.operands[j].order = tree.operands[1].order

RotationStep == Sectors \div tree.operands[1].order

\* C7: the cross-section realized for a Union node whose operands are all
\* RotatedCopies(node, n) with the same n is invariant under rotation by
\* 2*pi/n about the symmetry axis; it is the union of every operand rotated
\* by i * 2*pi/n for i = 0 .. n-1.
C7_RotatedUnionInvariant ==
    (Realized /\ pc = "done" /\ IsRotatedUnion) =>
        /\ IsPart(result.val)
        /\ Rot(result.val.cells, RotationStep) = result.val.cells
        /\ (NoKernelFailure /\ ChildrenEvaluate) =>
               result.val.cells =
                   UNION { Rot(realize(tree.operands[j].operand, w, NoFail).val.cells,
                               i * RotationStep) :
                           j \in 1 .. Len(tree.operands),
                           i \in 0 .. (tree.operands[1].order - 1) }

C7_Witness ==
    /\ Realized /\ pc = "done" /\ IsRotatedUnion
    /\ tree.operands[1].order >= 3
    /\ result.val.cells # Empty
    /\ result.val.cells # AllSectors
    /\ Len(klog) >= 2

\* C8: evaluating RotatedCopies(op, n) evaluates op exactly once and returns
\* a list of exactly n solids, the i-th (i = 0 .. n-1) being op rotated by
\* i * 2*pi/n, so the first is op itself; the list is not unioned.
C8_RotatedCopies ==
    (Realized /\ tree.type = "rotated_copies") =>
        LET sub == realize(tree.operand, w, kernel)
        IN  /\ elog = sub.elog
            /\ klog = sub.klog
            /\ (sub.err = "none" /\ IsPart(sub.val)) =>
                   /\ pc = "done"
                   /\ result.err = "none"
                   /\ result.val.kind = "list"
                   /\ Len(result.val.items) = tree.order
                   /\ \A i \in 0 .. (tree.order - 1) :
                          result.val.items[i + 1] =
                              Rot(sub.val.cells, (i * Sectors) \div tree.order)
                   /\ result.val.items[1] = sub.val.cells

C8_Witness ==
    /\ Realized /\ pc = "done" /\ tree.type = "rotated_copies"
    /\ tree.order >= 3
    /\ Len(elog) = 2
    /\ result.val.kind = "list"
    /\ result.val.items[1] # Empty
    /\ result.val.items[2] # result.val.items[1]

RECURSIVE LeftDifference(_, _)
LeftDifference(parts, k) ==
    \* ((o1 - o2) - o3) - ... - ok
    IF k = 1 THEN parts[1].cells
    ELSE LeftDifference(parts, k - 1) \ parts[k].cells

\* C9: a Difference node returns ((o1 - o2) - o3) - ... where o1 .. ok is
\* the concatenation, in child order, of every child's result after
\* flattening list-valued results; the first element is the minuend.
C9_DifferenceLeftFold ==
    (Realized /\ tree.type = "difference" /\ ChildrenEvaluate
        /\ Len(tree.operands) >= 1 /\ NoKernelFailure) =>
        LET parts == Flattened(Len(tree.operands))
        IN  Len(parts) >= 1 => Returned(Part(LeftDifference(parts, Len(parts))))

C9_Witness ==
    /\ Realized /\ pc = "done" /\ tree.type = "difference"
    /\ Len(tree.operands) = 3
    /\ tree.operands[1].type = "rotated_copies"
    /\ Len(klog) >= 4
    /\ NoKernelFailure
    /\ result.val.cells # Empty
    /\ result.val.cells # ChildResult(1).val.items[1]

(***************************************************************************)
(* Properties of the normalizer.                                           *)
(***************************************************************************)
Normalizing == op = "normalize"

D(x) == get_max_distance_from_origin(profile, x)

\* The fixed-point grid is fine enough: every midpoint taken is exact.
MidpointsExact ==
    (Normalizing /\ pc = "n_bisect") =>
        (max_w_lower_bound + max_w_upper_bound) % 2 = 0

\* Coordinates at or beyond m at which emptiness is examined.
Beyond(m) ==
    (m .. (m + Tolerance)) \cup { m + k * GridStep : k \in 1 .. (MaxGrid + 1) }

C5_EmptyBaseIsFatal ==
    (Normalizing /\ pc # "n_start") =>
        /\ D(0) = 0 =>
               /\ pc = "n_raised"
               /\ ret.kind = "ValueError"
               /\ queries = << 0 >>
        /\ D(0) > 0 =>
               /\ pc # "n_raised"
               /\ ret.kind # "ValueError"
               /\ scale.num * D(0) = scale.den
               /\ pc = "n_done" => ret.scale = scale

C5_Witness ==
    /\ Normalizing /\ pc = "n_raised"
    /\ D(0) = 0
    /\ ret.kind = "ValueError"
    /\ queries = << 0 >>

ZeroGridPoints == { k \in 0 .. MaxGrid : D(2 * D(0) + k * GridStep) = 0 }

FirstZeroGridPoint ==
    CHOOSE k \in ZeroGridPoints : \A j \in ZeroGridPoints : k <= j

GridSearchStopsAtFirstZero ==
    (Normalizing /\ D(0) > 0) =>
        /\ pc \in {"n_bisect", "n_done"} =>
               /\ ZeroGridPoints # {}
               /\ grid = FirstZeroGridPoint
        /\ ~profile.bounded => pc \in {"n_start", "n_grid"}

\* C6: when D(0) > 0 and D is zero at some grid point 2*D(0) + k, the grid
\* search stops at the first such k and the bisection that follows
\* terminates, so get_scale_and_max_w returns; when D is non-zero at every
\* grid point the grid search is never left.
C6_Termination ==
    /\ [] GridSearchStopsAtFirstZero
    /\ (Normalizing /\ pc = "n_start" /\ D(0) > 0 /\ ZeroGridPoints # {})
           ~> (pc = "n_done")

C6_Witness ==
    /\ Normalizing /\ pc = "n_done"
    /\ grid >= 2
    /\ Len(queries) >= 12

(***************************************************************************)
(* Properties of the catalog lookup.                                       *)
(***************************************************************************)
LookedUp == op = "lookup" /\ pc # "l_start"

\* The entries the two catalog builders are given, tagged with their type.
CatalogEntries ==
    { [names |-> SoftList[i].names, type |-> "soft", name |-> SoftList[i].names[1]] :
          i \in DOMAIN SoftList }
    \cup
    { [names |-> HardList[i].names, tree |-> HardList[i].tree, type |-> "hard",
       name |-> HardList[i].names[1]] : i \in DOMAIN HardList }

WithSpaces(n) == [i \in DOMAIN n |-> IF n[i] = "_" THEN " " ELSE n[i]]

Matching(n) == { e \in CatalogEntries : e.name = WithSpaces(n) }

\* C10: get_polytwister(name) returns the catalog spec whose name equals the
\* input with every underscore replaced by a space, compared case
\* sensitively (there is exactly one such spec), and raises the not-found
\* error for every input that matches no catalog name.
C10_LookupByNormalizedName ==
    LookedUp =>
        /\ Matching(name) # {} =>
               /\ pc = "l_done"
               /\ found.kind = "return"
               /\ Matching(name) = {found.spec}
        /\ Matching(name) = {} =>
               /\ pc = "l_raised"
               /\ found = [kind |-> "KeyError", spec |-> NotFound]

C10_Witness ==
    /\ LookedUp /\ pc = "l_done"
    /\ \E i \in DOMAIN name : name[i] = "_"
    /\ \E i \in DOMAIN name : name[i] = " "
    /\ found.spec.type = "hard"
    /\ found.spec.name = WithSpaces(name)
    /\ found.spec.name # name

\* C11: a catalog spec can be looked up by any entry of its names list, not
\* only the first: for every catalog entry s and every n in s.names,
\* get_polytwister(n) returns s.
C11_LookupByAnyName ==
    LookedUp =>
        \A e \in CatalogEntries :
            (\E j \in DOMAIN e.names : e.names[j] = name) =>
                /\ pc = "l_done"
                /\ found = [kind |-> "return", spec |-> e]

RECURSIVE HasEmptyOperandList(_)
HasEmptyOperandList(node) ==
    \* some Intersection / Union / Difference node of the tree has no operands
    IF node.type \in BoolTypes
    THEN \/ Len(node.operands) = 0
         \/ \E j \in 1 .. Len(node.operands) : HasEmptyOperandList(node.operands[j])
    ELSE IF node.type = "rotated_copies" THEN HasEmptyOperandList(node.operand)
    ELSE FALSE

\* C12: realizing a tree that contains an Intersection, Union or Difference
\* node with an empty operand list fails with a fatal error; no value is
\* returned.
C12_EmptyOperandListIsFatal ==
    (Realized /\ HasEmptyOperandList(tree)) => pc = "raised"

NodeTypes == {"cycloplane", "rotated_copies"} \cup BoolTypes

RECURSIVE HasInvalidTag(_)
HasInvalidTag(node) ==
    \* some node of the tree carries a type tag traverse does not know
    IF node.type \in BoolTypes
    THEN \E j \in 1 .. Len(node.operands) : HasInvalidTag(node.operands[j])
    ELSE IF node.type = "rotated_copies" THEN HasInvalidTag(node.operand)
    ELSE node.type \notin NodeTypes

\* The evaluation was ended by a step that comes before the node in
\* question: a kernel call that failed uncaught, or an operand that is not
\* a solid.
RaisedEarlier ==
    \/ result.err = "AttributeError"
    \/ Len(klog) > 0 /\ klog[Len(klog)].outcome = result.err

\* C13: a tree holding, at any depth, a node whose type tag is not one of
\* cycloplane, rotated_copies, intersection, difference, union is never
\* realized to a solid: the evaluation raises, and the error is the
\* invalid-node-type error unless an earlier step of the traversal raised
\* before the node was reached.
C13_InvalidTagIsFatal ==
    (Realized /\ HasInvalidTag(tree)) =>
        /\ pc = "raised"
        /\ result.val = None
        /\ result.err = "InvalidNodeType" \/ RaisedEarlier

C13_Witness ==
    /\ Realized /\ pc = "raised"
    /\ tree.type = "difference"
    /\ \A j \in 1 .. Len(tree.operands) : tree.operands[j].type \in NodeTypes
    /\ HasInvalidTag(tree)
    /\ Len(klog) >= 1
    /\ \A i \in KernelCalls : klog[i].outcome = "ok"
    /\ result = [val |-> None, err |-> "InvalidNodeType"]

(***************************************************************************)
(* Properties of the errors.                                               *)
(***************************************************************************)
FatalRaised ==
    \/ op = "realize" /\ pc = "raised" /\ result.err = "InvalidNodeType"
    \/ op = "normalize" /\ pc = "n_raised"

TriggeringW == IF op = "realize" THEN {w, RealizerW(w)} ELSE {0}

ReportsName(msg) == \E i \in DOMAIN msg : msg[i].kind = "name"

ReportsW(msg) == \E i \in DOMAIN msg : msg[i].kind = "w" /\ msg[i].num \in TriggeringW

\* C14: every fatal error raised by the core (unrecognized node tag in
\* traverse, empty base cross-section in get_scale_and_max_w) reports the
\* name of the spec and the w value that triggered it.
C14_FatalErrorsReportNameAndW ==
    FatalRaised => ReportsName(message) /\ ReportsW(message)

(***************************************************************************)
(* Properties of the soft slicer.                                          *)
(***************************************************************************)
Sliced == op = "slice" /\ pc # "s_start"

Pieces == DOMAIN edges

\* cross_section_points at the end of the loops of the n-th
\* get_cross_section call
Collected(n) == Appended(edges[n], Len(edges[n]))

Larger(a, b) == IF a >= b THEN a ELSE b

Smaller(a, b) == IF a <= b THEN a ELSE b

HalfOpenBracket(e) ==
    \/ e.p_1[4] <= soft_w /\ soft_w < e.p_2[4]
    \/ e.p_2[4] <= soft_w /\ soft_w < e.p_1[4]

C16_CoplanarEdgeEmitsBoth ==
    Sliced =>
        \A n \in Pieces : \A k \in DOMAIN edges[n] :
            LET e == edges[n][k]
            IN  (/\ AllClose(e.p_1[4], e.p_2[4])
                 /\ Smaller(e.p_1[4], e.p_2[4]) <= soft_w
                 /\ soft_w <= Larger(e.p_1[4], e.p_2[4]))
                    => e.points = << Project(e.p_1), Project(e.p_2) >>

Occurrences(seq, x) == Cardinality({ i \in DOMAIN seq : seq[i] = x })

\* The hull vertices of piece n that lie exactly at the target w.
VerticesAtW(n) ==
    { v \in DOMAIN soft_polytwister_spec.hulls[n].points :
          soft_polytwister_spec.hulls[n].points[v][4] = soft_w }

\* C17 as stated: the point list collected holds the projection of a hull
\* vertex lying exactly at the target w at most once.
C17_VertexAtMostOnce ==
    Sliced =>
        \A n \in Pieces : \A v \in VerticesAtW(n) :
            Occurrences(Collected(n),
                        Project(soft_polytwister_spec.hulls[n].points[v])) <= 1

\* The edges of the simplices of piece n that rise from point p, p being
\* their first endpoint.
RisingFrom(n, p) ==
    { k \in DOMAIN edges[n] : edges[n][k].p_1 = p /\ edges[n][k].p_2[4] > p[4] }

\* C17 (amended): for a hull vertex lying exactly at the target w, no edge
\* of which it is the upper endpoint contributes a point, and every edge
\* rising from it contributes its projection; the list collected holds the
\* projection once per simplex edge rising from the vertex.
C17_VertexOncePerRisingEdge ==
    Sliced =>
        \A n \in Pieces :
            /\ \A k \in DOMAIN edges[n] :
                   Larger(edges[n][k].p_1[4], edges[n][k].p_2[4]) = soft_w
                       => edges[n][k].points = << >>
            /\ \A v \in VerticesAtW(n) :
                   LET p == soft_polytwister_spec.hulls[n].points[v]
                   IN  /\ \A k \in RisingFrom(n, p) :
                              edges[n][k].points[1] = Project(p)
                       /\ Occurrences(Collected(n), Project(p))
                              >= Cardinality(RisingFrom(n, p))

C17_Witness ==
    /\ Sliced
    /\ \E n \in Pieces : \E v \in VerticesAtW(n) :
           LET p == soft_polytwister_spec.hulls[n].points[v]
           IN  /\ Cardinality(RisingFrom(n, p)) >= 3
               /\ Occurrences(Collected(n), Project(p)) >= 3
               /\ \E k \in DOMAIN edges[n] :
                      edges[n][k].p_2 = p /\ edges[n][k].p_1[4] < soft_w

\* C18: get_cross_section returns None, and raises nothing, when fewer than
\* 4 points were collected and when the hull library fails on the points
\* collected; otherwise it returns the 3D hull of the points collected.
C18_EmptyCrossSection ==
    Sliced =>
        /\ pc = "s_done"
        /\ ~soft_polytwister_spec.compound =>
               /\ Len(Collected(1)) < 4 => cross_section = NoSection
               /\ 1 \in qhull => cross_section = NoSection
               /\ (Len(Collected(1)) >= 4 /\ 1 \notin qhull) =>
                      /\ cross_section.kind = "hull"
                      /\ Len(cross_section.points) = Len(Collected(1))
                      /\ \A t \in DOMAIN cross_section.simplices :
                             Len(cross_section.simplices[t]) = 3

C18_Witness ==
    /\ Sliced /\ pc = "s_done"
    /\ ~soft_polytwister_spec.compound
    /\ Len(Collected(1)) >= 4
    /\ 1 \in qhull
    /\ cross_section = NoSection

\* The cross-section of piece n on its own.
PieceSection(n) ==
    get_cross_section(soft_polytwister_spec.hulls[n], soft_w, n \in qhull).ret

RECURSIVE NonEmptyUpTo(_)
NonEmptyUpTo(n) ==
    \* the pieces among the first n with a non-empty cross-section, in order
    IF n = 0 THEN << >>
    ELSE IF PieceSection(n).kind = "none" THEN NonEmptyUpTo(n - 1)
    ELSE Append(NonEmptyUpTo(n - 1), n)

NonEmptyPieces == NonEmptyUpTo(Len(soft_polytwister_spec.hulls))

RECURSIVE PointsBefore(_)
PointsBefore(j) ==
    \* number of points of the non-empty pieces before the j-th of them
    IF j = 1 THEN 0
    ELSE PointsBefore(j - 1) + Len(PieceSection(NonEmptyPieces[j - 1]).points)

RECURSIVE SimplicesBefore(_)
SimplicesBefore(j) ==
    IF j = 1 THEN 0
    ELSE SimplicesBefore(j - 1) + Len(PieceSection(NonEmptyPieces[j - 1]).simplices)

\* C19: for a compound spec the merged point list is the concatenation of
\* the non-empty pieces' points in piece order, every merged simplex index
\* is its original index plus the number of points of all earlier non-empty
\* pieces, is in range and refers to the same point as in its piece; pieces
\* with an empty cross-section are skipped and the result is empty when all
\* are.
C19_MergeByIndexOffset ==
    (Sliced /\ soft_polytwister_spec.compound) =>
        LET J == Len(NonEmptyPieces)
        IN  /\ J = 0 => cross_section = NoSection
            /\ J > 0 =>
                   /\ cross_section.kind = "mock"
                   /\ Len(cross_section.points) = PointsBefore(J + 1)
                   /\ Len(cross_section.simplices) = SimplicesBefore(J + 1)
                   /\ \A j \in 1 .. J :
                          LET piece == PieceSection(NonEmptyPieces[j])
                          IN  /\ \A i \in DOMAIN piece.points :
                                     cross_section.points[PointsBefore(j) + i]
                                         = piece.points[i]
                              /\ \A t \in DOMAIN piece.simplices : \A c \in 1 .. 3 :
                                     LET merged == cross_section.simplices
                                                       [SimplicesBefore(j) + t][c]
                                     IN  /\ merged = piece.simplices[t][c] + PointsBefore(j)
                                         /\ merged \in 0 .. (Len(cross_section.points) - 1)
                                         /\ cross_section.points[merged + 1]
                                                = piece.points[piece.simplices[t][c] + 1]

C19_Witness ==
    /\ Sliced /\ soft_polytwister_spec.compound
    /\ Len(soft_polytwister_spec.hulls) = 3
    /\ NonEmptyPieces = << 1, 3 >>
    /\ qhull = {}
    /\ cross_section.kind = "mock"
    /\ PointsBefore(2) > 0
    /\ cross_section.simplices[SimplicesBefore(2) + 1][1] = PointsBefore(2)
    /\ Len(cross_section.points) > PointsBefore(2) + 3

(***************************************************************************)
(* Properties of independent and repeated calls.                           *)
(***************************************************************************)
\* What make_polytwister_cross_section(polytwister, w_) returns or raises
\* when it is the only call.
Alone(w_) ==
    LET r == realize(tree, w_, kernel)
    IN  [val |-> r.val, err |-> r.err]

CallsIndependent ==
    op = "concurrent" =>
        \A q \in DOMAIN calls :
            calls[q].pc = "returned" => calls[q].ret = Alone(calls[q].w)

RepeatedCallsAgree ==
    (op = "normalize" /\ pc = "n_done") =>
        \A i \in DOMAIN returns : returns[i] = ret

CycloplaneCalls == { elog[i] : i \in DOMAIN elog }

\* theta = zenith / 2 lies within EPSILON of pi / 2
NearHalfPi(zenith) ==
    /\ zenith > Pi - (2 * EPSILON)
    /\ zenith < Pi + (2 * EPSILON)

\* C21: create_cycloplane takes the south-pole (slab) branch exactly when
\* |zenith/2 - pi/2| < EPSILON, and in that branch the result is empty
\* exactly when |w| >= 1; in every other case it takes the cylinder
\* branch, so 1/cos(theta) and tan(theta) are never evaluated with theta
\* within EPSILON of pi/2.
C21_SouthPoleBranch ==
    \A call \in CycloplaneCalls :
        /\ call.branch = "south_pole" <=> NearHalfPi(call.zenith)
        /\ call.branch = "south_pole" =>
               /\ call.part = Empty <=> (call.w >= Unit \/ call.w <= 0 - Unit)
               /\ call.trig = {}
        /\ call.branch # "south_pole" =>
               /\ call.branch = "cylinder"
               /\ call.trig = {call.zenith}
        /\ \A t \in call.trig : ~NearHalfPi(t)

\* A run whose calls took both branches, on either side of the edge of the
\* neighbourhood: a slab that is empty, and a cylinder one tick outside.
C21_Witness ==
    /\ Realized
    /\ \E call \in CycloplaneCalls :
           /\ call.branch = "south_pole"
           /\ call.zenith # Pi
           /\ call.w = Unit
           /\ call.part = Empty
    /\ pc = "done"

C21_WitnessCylinder ==
    /\ Realized
    /\ \E call \in CycloplaneCalls :
           /\ call.branch = "cylinder"
           /\ call.zenith = Pi - (2 * EPSILON)
           /\ call.part # Empty

(***************************************************************************)
(* Properties of the hard catalog.                                         *)
(***************************************************************************)
RECURSIVE WellFormed(_)
WellFormed(node) ==
    IF node.type = "cycloplane" THEN TRUE
    ELSE IF node.type \in BoolTypes
    THEN /\ Len(node.operands) >= 1
         /\ \A i \in DOMAIN node.operands : WellFormed(node.operands[i])
    ELSE IF node.type = "rotated_copies"
    THEN /\ node.order >= 2
         /\ DOMAIN node = {"type", "order", "operand"}
         /\ WellFormed(node.operand)
    ELSE FALSE

FoundHard == LookedUp /\ found.kind = "return" /\ found.spec.type = "hard"

\* C22: every tree in the hard catalog is well-formed: every leaf is a
\* cycloplane node, every intersection/union/difference node has a
\* non-empty operand list, and every rotated_copies node has order >= 2
\* and exactly one operand node.
C22_HardCatalogWellFormed ==
    /\ FoundHard => WellFormed(found.spec.tree)
    /\ LookedUp =>
           \A i \in DOMAIN HardList :
               get_polytwister(HardList[i].names[1]).spec.tree = HardList[i].tree

\* A catalog tree with nodes of every kind: a union of rotated copies of
\* differences of intersections of cycloplanes.
C22_Witness ==
    /\ FoundHard
    /\ found.spec.tree.type = "union"
    /\ Len(found.spec.tree.operands) = 6
    /\ \A i \in DOMAIN found.spec.tree.operands :
           LET copies == found.spec.tree.operands[i]
           IN  /\ copies.type = "rotated_copies"
               /\ copies.order = 5
               /\ copies.operand.type = "difference"
               /\ copies.operand.operands[1].type = "intersection"
               /\ copies.operand.operands[2].type = "union"
               /\ copies.operand.operands[2].operands[1].type = "cycloplane"

(***************************************************************************)
(* Properties of rendering one section.                                    *)
(***************************************************************************)
Rendering(kind) == op = "render" /\ request.kind = kind

\* the hard cross-section came out as an empty Workplane
EmptyHardSection ==
    /\ Rendering("hard")
    /\ pc # "r_start"
    /\ result.err = "none"
    /\ IsPart(result.val)
    /\ result.val.cells = Empty

\* the soft cross-section came out as None
EmptySoftSection ==
    /\ Rendering("soft")
    /\ pc # "r_start"
    /\ cross_section = NoSection

\* C23: an empty cross-section is a normal result, not an error: for an
\* empty mesh get_max_distance_from_origin returns 0, normalize_mesh and
\* scale_mesh return the mesh unchanged without dividing, and
\* render_one_section_as_obj (hard and soft) writes an output file with no
\* vertices and no faces without raising (the output file being new).
C23_EmptySectionIsNormal ==
    /\ EmptyHardSection =>
           /\ max_distance \in {Unmeasured, 0}
           /\ pc = "r_measured" => max_distance = 0 /\ raised = "none"
           /\ pc \in {"r_done", "r_raised"} =>
                  /\ mesh = EmptyMesh
                  /\ divisors = << >>
                  /\ raised \in {"none", "FileExistsError"}
                  /\ raised = "FileExistsError" <=> request.existed
                  /\ ~request.existed => pc = "r_done" /\ out_file = Written(<< >>)
    /\ EmptySoftSection =>
           /\ raised \in {"none", "FileExistsError"}
           /\ raised = "FileExistsError" <=> request.existed
           /\ ~request.existed => pc = "r_done" /\ out_file = Written(<< >>)

\* An empty hard section that was measured and then rendered with
\* normalize = True and a scale other than 1.0.
C23_Witness ==
    /\ EmptyHardSection
    /\ pc = "r_done"
    /\ max_distance = 0
    /\ request.normalize
    /\ request.scale.num # request.scale.den
    /\ tree.type = "intersection"
    /\ out_file = Written(<< >>)

C23_WitnessSoft ==
    /\ EmptySoftSection
    /\ pc = "r_done"
    /\ soft_polytwister_spec.compound
    /\ out_file = Written(<< >>)

C23_WitnessNonEmpty ==
    /\ Rendering("hard")
    /\ pc = "r_done"
    /\ max_distance > 0
    /\ divisors # << >>
    /\ Len(out_file.lines) > 3

(***************************************************************************)
(* Properties of the bisection of get_scale_and_max_w.                     *)
(***************************************************************************)
Observed(x) == \E i \in DOMAIN queries : queries[i] = x

\* C24: bisection invariant of get_scale_and_max_w: at every iteration the
\* upper bound is a point where D was observed to be 0 and the lower bound
\* is either 0 or a point where D was observed to be > 0, with
\* lower < upper; on return upper - lower <= 0.01 and the returned max_w
\* is the upper bound (so D(max_w) = 0 was observed and max_w > 0).
C24_BisectionInvariant ==
    /\ (Normalizing /\ pc \in {"n_bisect", "n_done"}) =>
           /\ Observed(max_w_upper_bound)
           /\ D(max_w_upper_bound) = 0
           /\ \/ max_w_lower_bound = 0
              \/ Observed(max_w_lower_bound) /\ D(max_w_lower_bound) > 0
           /\ max_w_lower_bound < max_w_upper_bound
    /\ (Normalizing /\ pc = "n_done") =>
           /\ max_w_upper_bound - max_w_lower_bound <= Tolerance
           /\ ret.kind = "return"
           /\ ret.max_w = max_w_upper_bound
           /\ Observed(ret.max_w)
           /\ D(ret.max_w) = 0
           /\ ret.max_w > 0

\* A return after a grid search that stepped and a bisection that moved
\* both bounds.
C24_Witness ==
    /\ Normalizing
    /\ pc = "n_done"
    /\ grid > 0
    /\ max_w_lower_bound > 0
    /\ D(max_w_lower_bound) > 0
    /\ max_w_upper_bound < (2 * profile.base) + (grid * GridStep)
    /\ ret.max_w = max_w_upper_bound

(***************************************************************************)
(* Properties of the frame list.                                           *)
(***************************************************************************)
FramesListed == op = "frames" /\ pc = "f_done"

\* x is n / d rounded to a nearest tick
Nearest(x, n, d) == 2 * Abs((x * d) - n) <= d

C25_WitnessOneFrame ==
    /\ FramesListed
    /\ frame_args.num_frames = 1
    /\ frames.result = << [frame_number |-> 1, w |-> 0,
                           file_stem |-> <<"o", "u", "t", "_", "0">>] >>

(***************************************************************************)
(* Properties of the interpolation along an edge.                          *)
(***************************************************************************)
Slicing == op \in {"slice", "render"} /\ pc \notin {"s_start", "r_start"}

Interpolated ==
    { entry \in UNION { { edges[n][k] : k \in DOMAIN edges[n] } : n \in DOMAIN edges } :
        entry.interpolated # << >> }

\* 0 <= num / den <= 1
InUnitInterval(t) ==
    \/ t.den > 0 /\ 0 <= t.num /\ t.num <= t.den
    \/ t.den < 0 /\ 0 >= t.num /\ t.num >= t.den

Animating == op = "animate" /\ animation.num_frames >= 2

\* Blender fails at none of the render_frame calls of this animation
BlenderWorks == animation.fail_at \notin 1 .. animation.num_frames

OrderKnown == pc \in {"a_render", "a_done"}

IsPermutation(seq, S) ==
    /\ Len(seq) = Cardinality(S)
    /\ { seq[k] : k \in DOMAIN seq } = S

AnimationOrdered ==
    (Animating /\ OrderKnown) =>
        LET N == animation.num_frames
        IN  /\ IsPermutation(frame_order, 0 .. (N - 1))
            /\ frame_order[1] = 0
            /\ frame_order[2] = N - 1
            /\ Len(rendered) <= N
            /\ \A k \in DOMAIN rendered :
                   LET i == rendered[k].frame_index
                   IN  /\ i = frame_order[k]
                       /\ Nearest(rendered[k].w,
                                  ((2 * i) - (N - 1)) * animation.max_w, N - 1)
                       /\ (i = 0) => rendered[k].w = 0 - animation.max_w
                       /\ (i = N - 1) => rendered[k].w = animation.max_w
                       /\ (i \in {0, N - 1}) <=> (k <= 2)
                       /\ \A j \in DOMAIN rendered :
                              rendered[j].frame_index = i => j = k

AnimationComplete ==
    /\ pc = "a_done"
    /\ IsPermutation([k \in DOMAIN rendered |-> rendered[k].frame_index],
                     0 .. (animation.num_frames - 1))

\* C27: render_animation with num_frames = N >= 2 renders every frame index
\* 0..N-1 exactly once (frame_order is a permutation of 0..N-1), renders
\* frame 0 and frame N-1 before all others, and renders frame i at
\* w = (2*i/(N-1) - 1)*max_w, so frame 0 is at -max_w and frame N-1 at
\* +max_w; when Blender fails at no frame the run gets through all of them.
C27_AnimationOrder ==
    /\ [](AnimationOrdered /\ ((Animating /\ pc = "a_done") => AnimationComplete))
    /\ ((Animating /\ BlenderWorks) ~> AnimationComplete)

C27_Witness ==
    /\ Animating
    /\ AnimationComplete
    /\ frame_order = <<0, 6, 2, 1, 3, 5, 4>>
    /\ animation.max_w = Unit
    /\ rendered[3].w < 0
    /\ rendered[7].w > 0

(***************************************************************************)
(* The coordinate the hard Realizer works at.                              *)
(***************************************************************************)
\* w' of a query at w_: w_ itself outside [-0.001, 0.001], +0.001 inside
Clamped(w_) ==
    IF (w_ > EPSILON) \/ (w_ < 0 - EPSILON) THEN w_ ELSE EPSILON

\* C28: the hard Realizer evaluates every cycloplane of a tree at one and
\* the same coordinate w', where w' = w if |w| > 0.001 and w' = +0.001
\* otherwise; hence every query with |w| <= 0.001, including w = 0 and small
\* negative w, returns the cross-section at w = +0.001, and the normalizer's
\* D(0) is D at 0.001.
C28_OneClampedCoordinate ==
    /\ Realized =>
           /\ \A c \in CycloplaneCalls : c.w = Clamped(w)
           /\ (Abs(w) <= EPSILON) =>
                  LET at == traverse(tree, EPSILON, kernel, StartState)
                  IN  /\ result = [val |-> at.val, err |-> at.err]
                      /\ elog = at.elog
                      /\ klog = at.klog
                      /\ message = at.msg
    /\ (op = "normalize" /\ pc # "n_start") =>
           LET at == get_max_distance_from_origin(profile, EPSILON)
           IN  /\ queries[1] = 0
               /\ (pc = "n_raised" /\ grid = 0) <=> (at = 0)
               /\ (at # 0) => scale = ScaleOf(at)

C28_Witness ==
    /\ Realized
    /\ pc = "done"
    /\ w = 0 - (EPSILON \div 2)
    /\ Len(elog) >= 2
    /\ \A c \in CycloplaneCalls : c.w = EPSILON
    /\ result.val # None

C28_WitnessOutside ==
    /\ Realized
    /\ w = 0 - (EPSILON + 1)
    /\ \E c \in CycloplaneCalls : c.w = w

C28_WitnessNormalizer ==
    /\ op = "normalize"
    /\ pc = "n_done"
    /\ scale = ScaleOf(get_max_distance_from_origin(profile, EPSILON))

(***************************************************************************)
(* Properties of the drivers.                                              *)
(***************************************************************************)
Dispatches == { dispatched[i] : i \in DOMAIN dispatched }

\* C29: every driver that computes sections for a spec taken from the
\* merged catalog (batch main and pipeline main) hands a spec of type "soft"
\* to the soft realizer and a spec of type "hard" to the hard realizer; a
\* soft spec is never passed to
\* hard_polytwister_section.render_all_sections_as_objs.
C29_DispatchByType ==
    \A d \in Dispatches : d.realizer = d.type

BatchFinished == op = "batch" /\ pc = "b_done"

\* C30: when batch main finishes without error, for any set of
\* per-polytwister output directories that existed before the run, the root
\* manifest.json lists in polytwister_names every catalog name that was
\* processed, both those skipped because their directory already existed
\* and those newly computed; a polytwister whose directory already exists
\* is never recomputed.
C30_ManifestListsProcessed ==
    /\ BatchFinished =>
           /\ manifest.exists
           /\ manifest.polytwister_names = BatchOrder
    /\ (op = "batch") =>
           \A d \in Dispatches : d.name \notin driver.existing

====
